---- MODULE Spec2Model ----
(***************************************************************************)
(* Model of the API gateway of mikro_task_template                         *)
(* (src/api_gateway/index.js): the two opossum circuit breakers wrapping   *)
(* the axios calls to the users and orders backends, forwardRequest and    *)
(* the aggregate route GET /v1/users/:userId/details.                      *)
(*                                                                         *)
(* One action is one turn of the gateway's event loop: a request arriving  *)
(* and running up to its await, a backend call settling (with the handler  *)
(* that awaits it resuming in the same turn once all it awaits has         *)
(* settled), or a timer firing.                                            *)
(*                                                                         *)
(* Time is counted in units of the per-call timeout (5000 ms): a call      *)
(* issued in one unit has to settle (reply, transport error or timeout)    *)
(* before the next but one unit starts, resetTimeout is 6 units and the    *)
(* rolling window of 10 buckets of 1000 ms is kept as 2 groups of          *)
(* 5 buckets, one group per unit.                                          *)
(*                                                                         *)
(* The behaviour of the libraries the gateway configures (opossum's        *)
(* breaker, axios' validateStatus, Promise.allSettled) is modelled as the  *)
(* gateway's configuration of them selects it.                             *)
(***************************************************************************)
EXTENDS Integers, Sequences, FiniteSets, TLC

VARIABLES
    circuit,    \* circuit[b]: state of the breaker of backend b
    call,       \* call[r][b]: the invocation of breaker b made for request r
    req,        \* req[r]: the gateway request suspended in slot r
    sent,       \* the response sent by the last turn of the event loop, if any
    hits,       \* hits[l][c]: requests of client c counted by rate limiter l
    options,    \* options[b]: the options the last turn passed to breaker b
    inbound,    \* the request the last turn received, if it received one
    usersDb,    \* the users service: the stored users, in the order stored
    handlers,   \* the users service: handlers[h] is a handler suspended at an await
    reply,      \* the response a backend service sent in its last turn, if any
    ordersDb,   \* the orders service: the stored orders, in the order stored
    creating,   \* the orders service: creating[h] is a handler suspended at its await
    trace       \* trace[r]: the request ids of the gateway request last handled in slot r

vars == <<circuit, call, req, sent, hits, options, inbound, usersDb, handlers, reply,
          ordersDb, creating, trace>>

\* the state of the middleware in front of the handlers
middleware == <<hits, options, inbound, trace>>

\* the state of the gateway, and the state of the backend services
gateway == <<circuit, call, req, sent, hits, options, inbound, trace>>
ordersService == <<ordersDb, creating>>
services == <<usersDb, handlers, reply, ordersDb, creating>>

----------------------------------------------------------------------------
(* Bounds *)

MaxReq == 2         \* gateway requests handled at the same time
MaxFires == 1       \* invocations of one breaker per time unit
MaxOrders == 1      \* orders in one page returned by the orders backend
MaxDenied == 2      \* requests of one client counted beyond a limiter's max
MaxUsers == 2       \* users stored by the users service
MaxStored == 2      \* orders stored by the orders service
MaxTraced == 2      \* requests of one client followed from arrival to response
MaxOwned == 11      \* orders of one user behind the aggregate route

(* Program constants: circuitOptions and the opossum default *)

timeout == 5000
errorThresholdPercentage == 50
resetTimeout == 30000
rollingCountTimeout == 10000
rollingCountBuckets == 10
volumeThreshold == 0

(* Program constants: max of limiter and of authLimiter *)

limiterMax == 100
authLimiterMax == 5

\* parseInt(req.query.limit) || 10 of the orders service's list route
defaultLimit == 10

\* the time unit, and the timers and the rolling window counted in it
TickMs == timeout
BucketMs == rollingCountTimeout \div rollingCountBuckets
TimeoutTicks == timeout \div TickMs
ResetTicks == resetTimeout \div TickMs
WindowTicks == (rollingCountBuckets * BucketMs) \div TickMs

Backends == {"users", "orders"}
Slots == 1..MaxReq
Clients == {"c1", "c2"}
Limiters == {"limiter", "authLimiter"}
Handlers == {1, 2}

----------------------------------------------------------------------------
(* Envelopes *)

Null == [null |-> TRUE]

\* the JSON value null as a response body or as the data of an envelope
JsonNull == [json |-> "null"]

Ok(d) == [success |-> TRUE, data |-> d]
Err(c, m) == [success |-> FALSE, error |-> [code |-> c, message |-> m]]

IsEnvelope(e) ==
    /\ "success" \in DOMAIN e
    /\ \/ e.success = TRUE /\ DOMAIN e = {"success", "data"}
       \/ /\ e.success = FALSE /\ DOMAIN e = {"success", "error"}
          /\ DOMAIN e.error = {"code", "message"}

\* result.error?.code
ErrorCode(e) ==
    IF "error" \in DOMAIN e /\ "code" \in DOMAIN e.error THEN e.error.code ELSE "undefined"

\* result.success (truthiness; undefined when the field is absent)
Success(e) == "success" \in DOMAIN e /\ e.success = TRUE

----------------------------------------------------------------------------
(* Routes of the gateway that go through forwardRequest *)

Route(m, p, b) == [method |-> m, path |-> p, circuit |-> b]

ForwardRoutes ==
    { Route("POST",   "/v1/users/register",  "users"),
      Route("POST",   "/v1/users/login",     "users"),
      Route("GET",    "/v1/users/profile",   "users"),
      Route("PUT",    "/v1/users/profile",   "users"),
      Route("GET",    "/v1/users",           "users"),
      Route("GET",    "/v1/users/:userId",   "users"),
      Route("POST",   "/v1/orders",          "orders"),
      Route("GET",    "/v1/orders",          "orders"),
      Route("GET",    "/v1/orders/:orderId", "orders"),
      Route("PUT",    "/v1/orders/:orderId", "orders"),
      Route("DELETE", "/v1/orders/:orderId", "orders") }

\* the two sub-requests of GET /v1/users/:userId/details
DetailsRoute == [users  |-> Route("GET", "/v1/users/:userId", "users"),
                 orders |-> Route("GET", "/v1/orders",        "orders")]

UserIds == {"u1", "u2"}
Identities == [id : UserIds, roles : {{"user"}, {"admin"}}]
OrderStatuses == {"created", "in_progress", "completed", "cancelled"}

----------------------------------------------------------------------------
(* HTTP responses of the two backends, as the gateway's axios call sees    *)
(* them: an HTTP status and the envelope in the body.                      *)

Http(s, e) == [status |-> s, data |-> e]

AuthErrors ==
    { Http(401, Err("UNAUTHORIZED", "No token provided")),
      Http(401, Err("INVALID_TOKEN", "Invalid or expired token")) }

InternalError == Http(500, Err("INTERNAL_ERROR", "Internal server error"))
ValidationError == Http(400, Err("VALIDATION_ERROR", "validation"))
UserNotFound == Http(404, Err("USER_NOT_FOUND", "User not found"))
OrderNotFound == Http(404, Err("ORDER_NOT_FOUND", "Order not found"))
Forbidden == Http(403, Err("FORBIDDEN", "Access denied"))

\* data of GET /v1/orders: one page of the caller's orders and their number
OrderLists(uid) ==
    UNION { [1..n -> [userId : {uid}, status : OrderStatuses]] : n \in 0..MaxOrders }

OrdersPage(uid) ==
    { [orders |-> l, pagination |-> [total |-> Len(l)]] : l \in OrderLists(uid) }

\* what the users backend answers on a route; uid is the user the reply is about
UsersResponses(rt, uid) ==
    CASE rt.path = "/v1/users/register" ->
            { Http(201, Ok([id |-> uid])), ValidationError, InternalError,
              Http(409, Err("USER_EXISTS", "User with this email already exists")) }
      [] rt.path = "/v1/users/login" ->
            { Http(200, Ok([id |-> uid])), ValidationError, InternalError,
              Http(401, Err("INVALID_CREDENTIALS", "Invalid email or password")) }
      [] rt.path = "/v1/users/profile" /\ rt.method = "GET" ->
            { Http(200, Ok([id |-> uid])), UserNotFound, InternalError } \cup AuthErrors
      [] rt.path = "/v1/users/profile" /\ rt.method = "PUT" ->
            { Http(200, Ok([id |-> uid])), ValidationError, UserNotFound, InternalError,
              Http(409, Err("EMAIL_EXISTS", "Email already in use")) } \cup AuthErrors
      [] rt.path = "/v1/users" ->       \* behind requireRole(['admin'])
            { Http(200, Ok([id |-> uid])), Forbidden, InternalError } \cup AuthErrors
      [] rt.path = "/v1/users/:userId" ->
            { Http(200, Ok([id |-> uid])), UserNotFound, InternalError }

\* what the orders backend answers on a route; uid is the id in the caller's token
OrdersResponses(rt, uid) ==
    CASE rt.path = "/v1/orders" /\ rt.method = "POST" ->
            { Http(201, Ok([userId |-> uid, status |-> "created"])),
              ValidationError, UserNotFound, InternalError } \cup AuthErrors
      [] rt.path = "/v1/orders" /\ rt.method = "GET" ->
            { Http(200, Ok(d)) : d \in OrdersPage(uid) } \cup {InternalError} \cup AuthErrors
      [] rt.path = "/v1/orders/:orderId" /\ rt.method = "GET" ->
            { Http(200, Ok([userId |-> uid, status |-> "created"])),
              OrderNotFound, Forbidden, InternalError } \cup AuthErrors
      [] rt.path = "/v1/orders/:orderId" /\ rt.method = "PUT" ->
            { Http(200, Ok([userId |-> uid, status |-> "completed"])),
              ValidationError, OrderNotFound, Forbidden, InternalError } \cup AuthErrors
      [] rt.path = "/v1/orders/:orderId" /\ rt.method = "DELETE" ->
            { Http(200, Ok([userId |-> uid, status |-> "cancelled"])),
              OrderNotFound, Forbidden, InternalError,
              Http(400, Err("INVALID_OPERATION", "Cannot cancel order")) } \cup AuthErrors

BackendResponses(rt, uid) ==
    IF rt.circuit = "users" THEN UsersResponses(rt, uid) ELSE OrdersResponses(rt, uid)

\* axios resolves for the statuses its default validateStatus accepts and
\* rejects with an error for every other one
ValidateStatus(status) == status >= 200 /\ status < 300

----------------------------------------------------------------------------
(* The circuit breakers (opossum, configured by circuitOptions).  Of the   *)
(* rolling counters only fires and failures are kept: they are the ones    *)
(* the breaker's decisions read.                                           *)

EmptyBucket == [fires |-> 0, failures |-> 0]

NewCircuit ==
    [state |-> "closed", pendingClose |-> FALSE, resetTimer |-> -1,
     window |-> [i \in 1..WindowTicks |-> EmptyBucket]]

RECURSIVE SumFires(_), SumFailures(_)
SumFires(w) == IF w = << >> THEN 0 ELSE Head(w).fires + SumFires(Tail(w))
SumFailures(w) == IF w = << >> THEN 0 ELSE Head(w).failures + SumFailures(Tail(w))

\* circuit.stats: the sum over the buckets of the rolling window
Stats(c) == [fires |-> SumFires(c.window), failures |-> SumFailures(c.window)]

\* the 'fire' event, emitted for every invocation, rejected or not
CountFire(c) == [c EXCEPT !.window[1].fires = @ + 1]
\* the 'failure' event
CountFailure(c) == [c EXCEPT !.window[1].failures = @ + 1]

\* the interval timer of the rolling window: the oldest buckets are dropped
Rotate(w) == <<EmptyBucket>> \o SubSeq(w, 1, WindowTicks - 1)

\* open(): arms the reset timer (the 'open' event starts it)
Open(c) ==
    IF c.state # "open"
    THEN [c EXCEPT !.state = "open", !.pendingClose = FALSE, !.resetTimer = ResetTicks]
    ELSE c

\* close(): clears the reset timer
Close(c) ==
    IF c.state # "closed"
    THEN [c EXCEPT !.state = "closed", !.pendingClose = FALSE, !.resetTimer = -1]
    ELSE c

\* the reset timer's callback
HalfOpenCircuit(c) ==
    [c EXCEPT !.state = "halfOpen", !.pendingClose = TRUE, !.resetTimer = -1]

\* variant: only a half-open breaker short-circuits
RejectsOnlyHalfOpen(c) == c.state = "halfOpen" /\ ~c.pendingClose

\* variant: the state of the breaker is not looked at
RejectsWithoutTrial(c) == ~c.pendingClose

\* the invocation is short-circuited: the breaker is not closed and no trial
\* call is pending
Rejects(c) == c.state # "closed" /\ ~c.pendingClose

\* fail(): the failure is counted, then the breaker opens when it is half-open
\* or the rolling error rate (failures / fires * 100) is above the threshold
ErrorRateExceeded(st) == st.failures * 100 > errorThresholdPercentage * st.fires

Fail(c) ==
    LET c1 == CountFailure(c)
        st == Stats(c1)
    IN  IF st.fires < volumeThreshold /\ c1.state # "halfOpen" THEN c1
        ELSE IF ErrorRateExceeded(st) \/ c1.state = "halfOpen" THEN Open(c1)
        ELSE c1

\* variant: a successful trial call leaves the breaker as it is
SucceedWithoutClose(c) == c

\* the 'success' event: a half-open breaker closes
Succeed(c) == IF c.state = "halfOpen" THEN Close(c) ELSE c

\* variant: no fallback registered on the users breaker
fallbackOrdersOnly ==
    [orders |-> Err("SERVICE_UNAVAILABLE", "Orders service temporarily unavailable")]

\* usersCircuit.fallback / ordersCircuit.fallback
fallback ==
    [users  |-> Err("SERVICE_UNAVAILABLE", "Users service temporarily unavailable"),
     orders |-> Err("SERVICE_UNAVAILABLE", "Orders service temporarily unavailable")]

(* One invocation (circuit.fire) as seen by its caller: a promise that is  *)
(* pending while the backend call is in flight, then fulfilled or rejected *)

NoCall == [st |-> "none", age |-> 0, value |-> Null, resp |-> Null, via |-> "none"]
InFlight == [st |-> "inflight", age |-> 0, value |-> Null, resp |-> Null, via |-> "none"]
Fulfilled(v, resp, via) == [st |-> "fulfilled", age |-> 0, value |-> v, resp |-> resp, via |-> via]
Rejected(resp, via) == [st |-> "rejected", age |-> 0, value |-> Null, resp |-> resp, via |-> via]

\* a failed or short-circuited invocation resolves with the fallback's result
\* when a fallback is registered and is rejected with the error otherwise
WithFallback(b, resp, via) ==
    IF b \in DOMAIN fallback THEN Fulfilled(fallback[b], resp, via) ELSE Rejected(resp, via)

\* variant: the trial flag is left set when the trial call is let through
FireCircuitKeepsPending(c) == CountFire(c)

\* circuit.fire(url, options): the new breaker state and the promise
FireCircuit(c) ==
    LET c1 == CountFire(c)
    IN  IF Rejects(c1) THEN c1 ELSE [c1 EXCEPT !.pendingClose = FALSE]

FireCall(c, b) ==
    IF Rejects(c) THEN WithFallback(b, Null, "reject") ELSE InFlight

\* the breaker's action: the axios call returns response.data or throws
ActionResolves(resp) == ValidateStatus(resp.status)

SettleCircuit(c, resp) == IF ActionResolves(resp) THEN Succeed(c) ELSE Fail(c)

SettleCall(b, resp) ==
    IF ActionResolves(resp) THEN Fulfilled(resp.data, resp, "response")
    ELSE WithFallback(b, resp, "response")

----------------------------------------------------------------------------
(* forwardRequest and the aggregate route *)

\* the codes the conditional chain of forwardRequest tests, with their status
statusTable ==
    [c \in {"VALIDATION_ERROR", "UNAUTHORIZED", "FORBIDDEN", "USER_NOT_FOUND",
            "ORDER_NOT_FOUND", "USER_EXISTS", "EMAIL_EXISTS"} |->
        CASE c = "VALIDATION_ERROR" -> 400
          [] c = "UNAUTHORIZED" -> 401
          [] c = "FORBIDDEN" -> 403
          [] c \in {"USER_NOT_FOUND", "ORDER_NOT_FOUND"} -> 404
          [] c \in {"USER_EXISTS", "EMAIL_EXISTS"} -> 409]

\* variant: the chain has no test for VALIDATION_ERROR
statusCodeNoValidation(result) ==
    IF Success(result) THEN 200
    ELSE IF ErrorCode(result) \in DOMAIN statusTable \ {"VALIDATION_ERROR"}
         THEN statusTable[ErrorCode(result)]
    ELSE 500

\* the status forwardRequest derives from the breaker's result
statusCode(result) ==
    IF Success(result) THEN 200
    ELSE IF ErrorCode(result) \in DOMAIN statusTable THEN statusTable[ErrorCode(result)]
    ELSE 500

Response(s, e) == [status |-> s, body |-> e]

\* result.success throws a TypeError when the breaker's result is null
ForwardThrows(cl) == cl.st = "fulfilled" /\ cl.value = JsonNull

\* the rest of forwardRequest once circuit.fire has settled: the try branch
\* when the promise is fulfilled, the catch branch when it is rejected or
\* the try branch throws
ForwardResponse(cl) ==
    IF cl.st = "rejected" \/ ForwardThrows(cl)
    THEN Response(503, Err("SERVICE_UNAVAILABLE", "Service temporarily unavailable"))
    ELSE Response(statusCode(cl.value), cl.value)

\* the reduce over the orders: the number of orders of each status present
ByStatus(orders) ==
    [s \in {orders[i].status : i \in DOMAIN orders} |->
        Cardinality({i \in DOMAIN orders : orders[i].status = s})]

EmptyOrders == [orders |-> << >>, pagination |-> [total |-> 0]]

\* ordersData.orders || []  and  ordersData.pagination?.total || 0
OrdersOf(d) == IF "orders" \in DOMAIN d THEN d.orders ELSE << >>
TotalOf(d) ==
    IF "pagination" \in DOMAIN d /\ "total" \in DOMAIN d.pagination
    THEN d.pagination.total ELSE 0

\* variant: a user lookup answered by the fallback is reported as 503
DetailsResponseUnavailable(userResult, ordersResult) ==
    IF userResult.st = "rejected" \/ ~Success(userResult.value)
    THEN IF ErrorCode(userResult.value) = "SERVICE_UNAVAILABLE"
         THEN Response(503, userResult.value)
         ELSE Response(404, Err("USER_NOT_FOUND", "User not found"))
    ELSE LET ordersData == IF ordersResult.st = "fulfilled" /\ Success(ordersResult.value)
                           THEN ordersResult.value.data
                           ELSE EmptyOrders
         IN  Response(200, Ok([user |-> userResult.value.data,
                               orders |-> OrdersOf(ordersData),
                               ordersSummary |->
                                   [total |-> TotalOf(ordersData),
                                    byStatus |-> ByStatus(OrdersOf(ordersData))]]))

\* variant: a failed orders lookup fails the whole request
DetailsResponseStrict(userResult, ordersResult) ==
    IF userResult.st = "rejected" \/ ~Success(userResult.value)
    THEN Response(404, Err("USER_NOT_FOUND", "User not found"))
    ELSE IF ordersResult.st = "rejected" \/ ~Success(ordersResult.value)
    THEN Response(503, Err("SERVICE_UNAVAILABLE", "Orders service temporarily unavailable"))
    ELSE LET ordersData == ordersResult.value.data
         IN  Response(200, Ok([user |-> userResult.value.data,
                               orders |-> OrdersOf(ordersData),
                               ordersSummary |->
                                   [total |-> TotalOf(ordersData),
                                    byStatus |-> ByStatus(OrdersOf(ordersData))]]))

\* ordersData.orders throws a TypeError when the data of the orders
\* backend's envelope is null (value?.success does not throw)
DetailsThrows(userResult, ordersResult) ==
    /\ userResult.st = "fulfilled" /\ Success(userResult.value)
    /\ ordersResult.st = "fulfilled" /\ Success(ordersResult.value)
    /\ ordersResult.value.data = JsonNull

\* the rest of the aggregate route once Promise.allSettled has resolved; the
\* catch branch when the try branch throws
DetailsResponse(userResult, ordersResult) ==
    IF userResult.st = "rejected" \/ ~Success(userResult.value)
    THEN Response(404, Err("USER_NOT_FOUND", "User not found"))
    ELSE IF DetailsThrows(userResult, ordersResult)
    THEN Response(500, Err("INTERNAL_ERROR", "Internal server error"))
    ELSE LET userData == userResult.value.data
             ordersData == IF ordersResult.st = "fulfilled" /\ Success(ordersResult.value)
                           THEN ordersResult.value.data
                           ELSE EmptyOrders
         IN  Response(200, Ok([user |-> userData,
                               orders |-> OrdersOf(ordersData),
                               ordersSummary |->
                                   [total |-> TotalOf(ordersData),
                                    byStatus |-> ByStatus(OrdersOf(ordersData))]]))

\* variant: the role test is inverted
AccessDeniedToAdmin(user, userId) == user.id # userId /\ "admin" \in user.roles

\* req.user.id !== userId && !req.user.roles?.includes('admin')
AccessDenied(user, userId) == user.id # userId /\ "admin" \notin user.roles

Idle ==
    [pc |-> "idle", kind |-> "none", route |-> Null, user |-> Null, userId |-> "",
     authorization |-> Null]

NoCalls == [b \in Backends |-> NoCall]

\* a request is handled in the first slot that handles none
Free(r) == req[r].pc = "idle"
SlotFree(r) == Free(r) /\ \A q \in Slots : q < r => ~Free(q)

\* within the bound on the load of one breaker
CanFire(b) == circuit[b].window[1].fires < MaxFires

\* res.status(s).json(e) by the handler of request rq in slot r, whose
\* invocations were cs
Send(r, rq, cs, rsp) ==
    [slot |-> r, kind |-> rq.kind, route |-> rq.route, user |-> rq.user,
     userId |-> rq.userId, authorization |-> rq.authorization,
     calls |-> cs, status |-> rsp.status, body |-> rsp.body]

\* the response the handler of rq sends when it resumes after its await
ResponseOf(rq, cs) ==
    IF rq.kind = "details"
    THEN DetailsResponse(cs["users"], cs["orders"])
    ELSE ForwardResponse(cs[rq.route.circuit])

\* The handler of request rq resumes after its await as soon as every
\* invocation it made has settled, and sends its response in the same turn;
\* it stays suspended while one of them is pending.
\* variant: the handler resumes on the first invocation that settles
PendingAll(cs) == \A b \in Backends : cs[b].st \in {"inflight", "none"}

Pending(cs) == \E b \in Backends : cs[b].st = "inflight"

Resume(r, rq, cs) ==
    IF Pending(cs)
    THEN /\ req' = [req EXCEPT ![r] = rq]
         /\ call' = [call EXCEPT ![r] = cs]
         /\ sent' = Null
    ELSE /\ req' = [req EXCEPT ![r] = Idle]
         /\ call' = [call EXCEPT ![r] = NoCalls]
         /\ sent' = Send(r, rq, cs, ResponseOf(rq, cs))

NoHits == [l \in Limiters |-> [c \in Clients |-> 0]]

NoHandler == [op |-> "none"]

Init ==
    /\ circuit = [b \in Backends |-> NewCircuit]
    /\ call = [r \in Slots |-> NoCalls]
    /\ req = [r \in Slots |-> Idle]
    /\ sent = Null
    /\ hits = NoHits
    /\ options = Null
    /\ inbound = Null
    /\ trace = [r \in Slots |-> Null]
    /\ usersDb = << >>
    /\ handlers = [h \in Handlers |-> NoHandler]
    /\ reply = Null
    /\ ordersDb = << >>
    /\ creating = [h \in Handlers |-> NoHandler]

\* variant: the breaker is invoked a second time for the same request
ForwardRequestTwice(r, rt) ==
    LET b == rt.circuit IN
    /\ SlotFree(r)
    /\ CanFire(b)
    /\ circuit' = [circuit EXCEPT ![b] = FireCircuit(FireCircuit(@))]
    /\ Resume(r, [Idle EXCEPT !.pc = "waiting", !.kind = "forward", !.route = rt],
              [NoCalls EXCEPT ![b] = FireCall(circuit[b], b)])

\* a request on one of the forwarded routes reaches forwardRequest, which
\* invokes the route's breaker and awaits it; user is req.user as verifyToken
\* has set it (Null on the public routes) and userId the id in the url
Forwarded(r, rt, user, userId) ==
    LET b == rt.circuit IN
    /\ SlotFree(r)
    /\ CanFire(b)
    /\ circuit' = [circuit EXCEPT ![b] = FireCircuit(@)]
    /\ Resume(r, [Idle EXCEPT !.pc = "waiting", !.kind = "forward", !.route = rt,
                              !.user = user, !.userId = userId],
              [NoCalls EXCEPT ![b] = FireCall(circuit[b], b)])

\* the same for a request whose caller and url are not followed
ForwardRequest(r, rt) == Forwarded(r, rt, Null, "")

\* GET /v1/users/:userId/details: 403 for a caller who is neither the user
\* nor an admin; otherwise both breakers are invoked and awaited together
Details(r, user, userId) ==
    LET rq == [Idle EXCEPT !.pc = "waiting", !.kind = "details", !.user = user,
                           !.userId = userId]
    IN  /\ SlotFree(r)
        /\ IF AccessDenied(user, userId)
           THEN /\ sent' = Send(r, rq, NoCalls, Response(403, Err("FORBIDDEN", "Access denied")))
                /\ UNCHANGED <<circuit, call, req>>
           ELSE /\ \A b \in Backends : CanFire(b)
                /\ circuit' = [b \in Backends |-> FireCircuit(circuit[b])]
                /\ Resume(r, rq, [b \in Backends |-> FireCall(circuit[b], b)])

\* the sub-request a pending invocation has sent to backend b
SubRoute(r, b) == IF req[r].kind = "details" THEN DetailsRoute[b] ELSE req[r].route

\* the user a backend's reply to that sub-request is about: the target of the
\* user lookup, the owner of the caller's token for the orders of the
\* aggregate route, the user named in the url of a forwarded
\* GET /v1/users/:userId; the payload of a forwarded reply is passed on unread
Subjects(r, b) ==
    IF req[r].kind = "details"
    THEN IF b = "users" THEN {req[r].userId} ELSE {req[r].user.id}
    ELSE IF req[r].route.path = "/v1/users/:userId" /\ req[r].userId # ""
    THEN {req[r].userId}
    ELSE {"u1"}

\* variant: the two backends are called through one breaker
SettleStepShared(r, b, c, p) ==
    /\ circuit' = [o \in Backends |-> c]
    /\ Resume(r, req[r], [call[r] EXCEPT ![b] = p])
    /\ options' = Null
    /\ inbound' = Null
    /\ UNCHANGED <<hits, trace, services>>

\* a pending invocation of breaker b settles with promise p, leaving the
\* breaker in state c
SettleStep(r, b, c, p) ==
    /\ circuit' = [circuit EXCEPT ![b] = c]
    /\ Resume(r, req[r], [call[r] EXCEPT ![b] = p])
    /\ options' = Null
    /\ inbound' = Null
    /\ UNCHANGED <<hits, trace, services>>

\* the backend answers a pending call with an HTTP response
BackendReply(r, b) ==
    /\ call[r][b].st = "inflight"
    /\ \E uid \in Subjects(r, b) : \E resp \in BackendResponses(SubRoute(r, b), uid) :
          SettleStep(r, b, SettleCircuit(circuit[b], resp), SettleCall(b, resp))

\* the axios call fails without a response (connection refused or reset)
TransportError(r, b) ==
    /\ call[r][b].st = "inflight"
    /\ SettleStep(r, b, Fail(circuit[b]), WithFallback(b, Null, "error"))

\* variant: the breaker has no timeout, a pending call stays pending
TimeoutDisabled(r, b) ==
    /\ call[r][b].st = "inflight"
    /\ call[r][b].age >= TimeoutTicks
    /\ UNCHANGED vars

\* the breaker's timeout timer of a pending call fires
Timeout(r, b) ==
    /\ call[r][b].st = "inflight"
    /\ call[r][b].age >= TimeoutTicks
    /\ SettleStep(r, b, Fail(circuit[b]), WithFallback(b, Null, "timeout"))

\* the reset timer of an open breaker fires
HalfOpen(b) ==
    /\ circuit[b].resetTimer = 0
    /\ circuit' = [circuit EXCEPT ![b] = HalfOpenCircuit(@)]
    /\ sent' = Null
    /\ options' = Null
    /\ inbound' = Null
    /\ UNCHANGED <<call, req, hits, trace, services>>

\* one time unit passes; timers that are due fire first
Tick ==
    /\ \A r \in Slots, b \in Backends :
          call[r][b].st = "inflight" => call[r][b].age < TimeoutTicks
    /\ \A b \in Backends : circuit[b].resetTimer # 0
    /\ circuit' = [b \in Backends |->
                     [circuit[b] EXCEPT !.window = Rotate(@),
                                        !.resetTimer = IF @ > 0 THEN @ - 1 ELSE @]]
    /\ call' = [r \in Slots |-> [b \in Backends |->
                     IF call[r][b].st = "inflight"
                     THEN [call[r][b] EXCEPT !.age = @ + 1]
                     ELSE call[r][b]]]
    /\ sent' = Null
    /\ options' = Null
    /\ inbound' = Null
    /\ UNCHANGED <<req, hits, trace, services>>

Settles ==
    \/ \E r \in Slots, b \in Backends : BackendReply(r, b)
    \/ \E r \in Slots, b \in Backends : TransportError(r, b)
    \/ \E r \in Slots, b \in Backends : Timeout(r, b)
    \/ \E b \in Backends : HalfOpen(b)
    \/ Tick

\* the whole gateway
Next ==
    \/ \E r \in Slots, rt \in ForwardRoutes :
          ForwardRequest(r, rt) /\ UNCHANGED <<middleware, services>>
    \/ \E r \in Slots, user \in Identities, userId \in UserIds :
          Details(r, user, userId) /\ UNCHANGED <<middleware, services>>
    \/ Settles

Spec == Init /\ [][Next]_vars

\* the gateway under requests on the forwarded routes of the users backend
UsersRoutes == {rt \in ForwardRoutes : rt.circuit = "users"}

NextUsers ==
    \/ \E r \in Slots, rt \in UsersRoutes :
          ForwardRequest(r, rt) /\ UNCHANGED <<middleware, services>>
    \/ Settles

SpecUsers == Init /\ [][NextUsers]_vars

\* the gateway under requests on one route of each backend, two at a time
PairRoutes ==
    { Route("GET", "/v1/users/:userId", "users"),
      Route("GET", "/v1/orders/:orderId", "orders") }

NextPair ==
    \/ \E r \in {1, 2}, rt \in PairRoutes :
          ForwardRequest(r, rt) /\ UNCHANGED <<middleware, services>>
    \/ Settles

SpecPair == Init /\ [][NextPair]_vars

\* the gateway under requests on the aggregate route, one at a time
NextDetails ==
    \/ \E user \in Identities, userId \in UserIds :
          Details(1, user, userId) /\ UNCHANGED <<middleware, services>>
    \/ Settles

SpecDetails == Init /\ [][NextDetails]_vars

\* the gateway under requests on a forwarded route and on the aggregate
\* route, one at a time, with backends that answer, fail or stay silent; time
\* passes and the timers of the process fire when they are due
NextTimers ==
    \/ ForwardRequest(1, Route("GET", "/v1/users/profile", "users"))
          /\ UNCHANGED <<middleware, services>>
    \/ Details(1, [id |-> "u1", roles |-> {"user"}], "u1")
          /\ UNCHANGED <<middleware, services>>
    \/ Settles

SpecTimers ==
    /\ Init /\ [][NextTimers]_vars
    /\ WF_vars(Tick)
    /\ \A r \in Slots, b \in Backends : WF_vars(Timeout(r, b))
    /\ \A b \in Backends : WF_vars(HalfOpen(b))

----------------------------------------------------------------------------
(* forwardRequest's mapping from the breaker's result to the response,     *)
(* applied to every envelope: the request is suspended in forwardRequest   *)
(* on some route, the breaker is in some state and its promise is          *)
(* fulfilled with some envelope; the handler then resumes.                 *)

BackendCodes(b) ==
    { ErrorCode(resp.data) :
        resp \in { x \in UNION { BackendResponses(rt, uid) :
                                   rt \in {y \in ForwardRoutes : y.circuit = b},
                                   uid \in UserIds } : ~Success(x.data) } }

GatewayCodes ==
    {"SERVICE_UNAVAILABLE", "RATE_LIMIT_EXCEEDED", "NOT_FOUND", "UNKNOWN_CODE"}

Envelopes ==
    {Ok([id |-> "u1"])}
        \cup { Err(c, "message") : c \in BackendCodes("users") \cup BackendCodes("orders")
                                          \cup GatewayCodes }

CircuitStates == {"closed", "open", "halfOpen"}

InitStatus ==
    \E rt \in ForwardRoutes, e \in Envelopes, st \in CircuitStates :
        /\ circuit = [b \in Backends |->
                        IF b = rt.circuit THEN [NewCircuit EXCEPT !.state = st] ELSE NewCircuit]
        /\ req = [r \in Slots |->
                    IF r = 1 THEN [Idle EXCEPT !.pc = "waiting", !.kind = "forward", !.route = rt]
                    ELSE Idle]
        /\ call = [r \in Slots |->
                    IF r = 1 THEN [NoCalls EXCEPT ![rt.circuit] = Fulfilled(e, Null, "response")]
                    ELSE NoCalls]
        /\ sent = Null
        /\ hits = NoHits
        /\ options = Null
        /\ inbound = Null
        /\ trace = [r \in Slots |-> Null]
        /\ usersDb = << >>
        /\ handlers = [h \in Handlers |-> NoHandler]
        /\ reply = Null
        /\ ordersDb = << >>
        /\ creating = [h \in Handlers |-> NoHandler]

\* the handler resumes with the breaker's result
Continue(r) ==
    /\ req[r].pc = "waiting"
    /\ ~Pending(call[r])
    /\ Resume(r, req[r], call[r])
    /\ UNCHANGED <<circuit, hits, options, inbound, trace, services>>

NextStatus == \E r \in Slots : Continue(r)

SpecStatus == InitStatus /\ [][NextStatus]_vars

----------------------------------------------------------------------------
(* The middleware in front of the handlers: the two rate limiters and      *)
(* verifyToken.  The middleware and the handler up to its await run in the *)
(* turn in which the request arrives.                                      *)

StrictPaths == {"/v1/users/register", "/v1/users/login"}

DetailsPath == "/v1/users/:userId/details"

GatewayRoutes == ForwardRoutes \cup {Route("GET", DetailsPath, "both")}

\* a token: the payload it was issued for, the key it is signed with and
\* whether its lifetime is over; or a string that is no token at all
JWT_SECRET == "JWT_SECRET"
Token(p, k, e) == [payload |-> p, key |-> k, expired |-> e]
Garbage == [garbage |-> TRUE]

Tokens ==
    { Token(u, JWT_SECRET, FALSE) : u \in Identities }
        \cup { Token([id |-> "u1", roles |-> {"admin"}], "other key", FALSE),
               Token([id |-> "u1", roles |-> {"user"}], JWT_SECRET, TRUE),
               Garbage }

\* jwt.verify(token, JWT_SECRET): the payload, or Null where it throws
jwtVerify(token) ==
    IF "payload" \in DOMAIN token /\ token.key = JWT_SECRET /\ ~token.expired
    THEN token.payload ELSE Null

\* the Authorization header: absent (Null) or a scheme and credentials
Authorization(scheme, token) == [scheme |-> scheme, token |-> token]

AuthHeaders ==
    {Null} \cup { Authorization("Bearer", t) : t \in Tokens }
           \cup { Authorization("Basic", Token([id |-> "u1", roles |-> {"user"}], JWT_SECRET, FALSE)) }

\* variant: the scheme of the header is not looked at
verifyTokenAnyScheme(authorization) ==
    IF authorization = Null
    THEN Response(401, Err("UNAUTHORIZED", "No token provided"))
    ELSE IF jwtVerify(authorization.token) = Null
    THEN Response(401, Err("INVALID_TOKEN", "Invalid or expired token"))
    ELSE Null

\* verifyToken: the 401 it answers, or Null when it calls next()
verifyToken(authorization) ==
    IF authorization = Null \/ authorization.scheme # "Bearer"
    THEN Response(401, Err("UNAUTHORIZED", "No token provided"))
    ELSE IF jwtVerify(authorization.token) = Null
    THEN Response(401, Err("INVALID_TOKEN", "Invalid or expired token"))
    ELSE Null

\* an inbound request: express serves HEAD requests by the GET routes
Methods(rt) == IF rt.method = "GET" THEN {"GET", "HEAD"} ELSE {rt.method}

Inbounds(clients, routes, auths, ids, bodies, queries) ==
    UNION { [client : clients, route : {rt}, method : Methods(rt), authorization : auths,
             requestId : ids, body : bodies, query : queries, userId : UserIds] :
            rt \in routes }

\* variant: the id is generated whatever the request came with
RequestIdGenerated(inb) == "uuid"

\* req.id = req.headers['x-request-id'] || uuidv4(): an absent header and an
\* empty one are both falsy; a generated id differs from every id sent
RequestId(inb) ==
    IF inb.requestId = Null \/ inb.requestId.value = "" THEN "uuid" ELSE inb.requestId.value

\* the message of a rate limiter, sent with status 429
TooMany(l) ==
    Response(429, Err("RATE_LIMIT_EXCEEDED",
                      IF l = "limiter" THEN "Too many requests, please try again later."
                      ELSE "Too many authentication attempts, please try again later."))

Max(l) == IF l = "limiter" THEN limiterMax ELSE authLimiterMax

\* variant: the request that reaches max is refused already
ExceededAtMax(l, c) == hits[l][c] + 1 >= Max(l)

\* a limiter counts the request and refuses it when the count is above max
Exceeded(l, c) == hits[l][c] + 1 > Max(l)

\* variant: the strict limiter is mounted on the register route only
CountingRegisterOnly(rt, c) ==
    IF rt.path = "/v1/users/register" /\ ~Exceeded("limiter", c) THEN Limiters ELSE {"limiter"}

\* the limiters that count a request of client c on route rt: the general one,
\* then the strict one on its paths unless the general one has refused
Counting(rt, c) ==
    IF rt.path \in StrictPaths /\ ~Exceeded("limiter", c) THEN Limiters ELSE {"limiter"}

\* the headers forwardRequest gives the sub-request
ForwardHeaders(inb) ==
    [h \in {"X-Request-ID", "Content-Type"}
              \cup (IF inb.authorization # Null THEN {"Authorization"} ELSE {}) |->
        CASE h = "X-Request-ID" -> [value |-> RequestId(inb)]
          [] h = "Content-Type" -> [value |-> "application/json"]
          [] h = "Authorization" -> inb.authorization]

\* variant: the body is passed on for every method
ForwardOptionsWithData(inb) ==
    [f \in {"method", "headers", "params", "data"} |->
        CASE f = "method" -> [value |-> inb.method]
          [] f = "headers" -> ForwardHeaders(inb)
          [] f = "params" -> [value |-> inb.query]
          [] f = "data" -> [value |-> inb.body]]

\* the options forwardRequest passes to circuit.fire
ForwardOptions(inb) ==
    [f \in {"method", "headers", "params"}
              \cup (IF inb.method # "GET" /\ inb.method # "HEAD" THEN {"data"} ELSE {}) |->
        CASE f = "method" -> [value |-> inb.method]
          [] f = "headers" -> ForwardHeaders(inb)
          [] f = "params" -> [value |-> inb.query]
          [] f = "data" -> [value |-> inb.body]]

Fire(url, opts) == [url |-> url, options |-> opts]

\* the headers and options of the two sub-requests of the aggregate route
DetailsHeaders(inb) ==
    [h \in {"X-Request-ID", "Authorization"} |->
        IF h = "X-Request-ID" THEN [value |-> RequestId(inb)] ELSE inb.authorization]

DetailsOptions(inb) ==
    [users  |-> Fire("/v1/users/:userId",
                     [f \in {"method", "headers"} |->
                        IF f = "method" THEN [value |-> "GET"] ELSE DetailsHeaders(inb)]),
     orders |-> Fire("/v1/orders",
                     [f \in {"method", "headers", "params"} |->
                        CASE f = "method" -> [value |-> "GET"]
                          [] f = "headers" -> DetailsHeaders(inb)
                          [] f = "params" -> [value |-> [userId |-> inb.userId]]])]

\* the X-Request-ID headers of the sub-requests passed to the breakers
FiredIds(opts) ==
    IF opts = Null THEN {}
    ELSE { opts[b].options["headers"]["X-Request-ID"] : b \in DOMAIN opts }

\* res.setHeader('X-Request-ID', req.id): the header of the response, kept
\* with the header the request came with and the ids given to its sub-requests
Traced(inb, opts) ==
    [inbound |-> inb.requestId, header |-> [value |-> RequestId(inb)],
     fired |-> FiredIds(opts)]

\* a middleware answers the request itself: no handler runs
Answer(r, inb, kind, rsp) ==
    /\ sent' = Send(r, [Idle EXCEPT !.kind = kind, !.route = inb.route,
                                    !.authorization = inb.authorization], NoCalls, rsp)
    /\ options' = Null
    /\ UNCHANGED <<circuit, call, req>>

\* variant: verifyToken runs in front of the limiters
InboundVerifiesFirst(r, inb) ==
    LET c == inb.client
        rt == inb.route
        refused == rt.path \notin StrictPaths /\ verifyToken(inb.authorization) # Null
        counting == IF refused THEN {} ELSE Counting(rt, c)
    IN  /\ SlotFree(r)
        /\ \A l \in Counting(rt, c) : hits[l][c] < Max(l) + MaxDenied
        /\ inbound' = inb
        /\ UNCHANGED services
        /\ hits' = [l \in Limiters |->
                       IF l \in counting THEN [hits[l] EXCEPT ![c] = @ + 1] ELSE hits[l]]
        /\ IF refused
           THEN Answer(r, inb, "verifyToken", verifyToken(inb.authorization))
           ELSE IF Exceeded("limiter", c)
           THEN Answer(r, inb, "limiter", TooMany("limiter"))
           ELSE IF rt.path \in StrictPaths /\ Exceeded("authLimiter", c)
           THEN Answer(r, inb, "authLimiter", TooMany("authLimiter"))
           ELSE IF rt.path = DetailsPath
           THEN LET user == jwtVerify(inb.authorization.token)
                IN  /\ Details(r, user, inb.userId)
                    /\ options' = IF AccessDenied(user, inb.userId) THEN Null
                                  ELSE DetailsOptions(inb)
           ELSE /\ Forwarded(r, rt, IF rt.path \in StrictPaths THEN Null
                                     ELSE jwtVerify(inb.authorization.token), inb.userId)
                /\ options' = [b \in {rt.circuit} |-> Fire(rt.path, ForwardOptions(inb))]
        /\ trace' = [trace EXCEPT ![r] = Traced(inb, options')]

\* a request arrives at the gateway: limiter, then authLimiter on the strict
\* paths and verifyToken on the others, then the route's handler
Inbound(r, inb) ==
    LET c == inb.client
        rt == inb.route
    IN  /\ SlotFree(r)
        /\ \A l \in Counting(rt, c) : hits[l][c] < Max(l) + MaxDenied
        /\ inbound' = inb
        /\ UNCHANGED services
        /\ hits' = [l \in Limiters |->
                       IF l \in Counting(rt, c) THEN [hits[l] EXCEPT ![c] = @ + 1] ELSE hits[l]]
        /\ IF Exceeded("limiter", c)
           THEN Answer(r, inb, "limiter", TooMany("limiter"))
           ELSE IF rt.path \in StrictPaths /\ Exceeded("authLimiter", c)
           THEN Answer(r, inb, "authLimiter", TooMany("authLimiter"))
           ELSE IF rt.path \notin StrictPaths /\ verifyToken(inb.authorization) # Null
           THEN Answer(r, inb, "verifyToken", verifyToken(inb.authorization))
           ELSE IF rt.path = DetailsPath
           THEN LET user == jwtVerify(inb.authorization.token)
                IN  /\ Details(r, user, inb.userId)
                    /\ options' = IF AccessDenied(user, inb.userId) THEN Null
                                  ELSE DetailsOptions(inb)
           ELSE /\ Forwarded(r, rt, IF rt.path \in StrictPaths THEN Null
                                     ELSE jwtVerify(inb.authorization.token), inb.userId)
                /\ options' = [b \in {rt.circuit} |-> Fire(rt.path, ForwardOptions(inb))]
        /\ trace' = [trace EXCEPT ![r] = Traced(inb, options')]

\* variant: the end of a window takes one request off the count
WindowResetByOne(l, c) ==
    /\ hits[l][c] > 0
    /\ hits' = [hits EXCEPT ![l][c] = @ - 1]
    /\ sent' = Null
    /\ options' = Null
    /\ inbound' = Null
    /\ UNCHANGED <<circuit, call, req, trace, services>>

\* the window of limiter l ends for client c: the store forgets the count
WindowReset(l, c) ==
    /\ hits[l][c] > 0
    /\ hits' = [hits EXCEPT ![l][c] = 0]
    /\ sent' = Null
    /\ options' = Null
    /\ inbound' = Null
    /\ UNCHANGED <<circuit, call, req, trace, services>>

\* one client on the strict paths
StrictRoutes == {rt \in ForwardRoutes : rt.path \in StrictPaths}

StrictInbounds ==
    { inb \in Inbounds({"c1"}, StrictRoutes, {Null}, {Null}, {"{email,password}"}, {"{}"}) :
        inb.userId = "u1" }

NextStrict ==
    \/ \E inb \in StrictInbounds : Inbound(1, inb)
    \/ \E l \in Limiters : WindowReset(l, "c1")
    \/ Settles

SpecStrict == Init /\ [][NextStrict]_vars

\* one client on the strict paths and, without a token, on a protected one,
\* while the users backend answers every call in time with a 2xx status; the
\* timer of a limiter's store ends every window
Served(r, b) ==
    /\ call[r][b].st = "inflight"
    /\ \E uid \in Subjects(r, b) : \E resp \in BackendResponses(SubRoute(r, b), uid) :
          /\ ValidateStatus(resp.status)
          /\ SettleStep(r, b, SettleCircuit(circuit[b], resp), SettleCall(b, resp))

WindowInbounds ==
    StrictInbounds
        \cup { inb \in Inbounds({"c1"}, {Route("GET", "/v1/users/profile", "users")},
                              {Null}, {Null}, {"{}"}, {"{}"}) :
                 inb.userId = "u1" /\ inb.method = "GET" }

NextWindow ==
    \/ \E inb \in WindowInbounds : Inbound(1, inb)
    \/ \E l \in Limiters : WindowReset(l, "c1")
    \/ \E b \in Backends : Served(1, b)
    \/ Tick

SpecWindow ==
    Init /\ [][NextWindow]_vars /\ \A l \in Limiters : WF_vars(WindowReset(l, "c1"))

\* one client on the protected routes with every kind of Authorization
\* header that verifyToken refuses and, with a token it accepts, on the
\* profile route, while the backends answer every call in time with a 2xx
\* status
ProtectedRoutes == {rt \in GatewayRoutes : rt.path \notin StrictPaths}

AuthInbounds ==
    { inb \in Inbounds({"c1"}, ProtectedRoutes, AuthHeaders, {Null}, {"{}"}, {"{}"}) :
        /\ inb.userId = "u1"
        /\ inb.method = inb.route.method
        /\ verifyToken(inb.authorization) = Null
              => /\ inb.route.path = "/v1/users/profile"
                 /\ inb.authorization.token.payload = [id |-> "u1", roles |-> {"user"}] }

NextAuth ==
    \/ \E inb \in AuthInbounds : Inbound(1, inb)
    \/ WindowReset("limiter", "c1")
    \/ \E b \in Backends : Served(1, b)
    \/ Tick

SpecAuth == Init /\ [][NextAuth]_vars

\* the first request at a fresh gateway, on every forwarded route, with and
\* without a request id, a body and query parameters, with a token on the
\* protected routes and with and without one on the others
OptionInbounds ==
    { inb \in Inbounds({"c1"}, ForwardRoutes,
                       {Null, Authorization("Bearer", Token([id |-> "u1", roles |-> {"user"}],
                                                            JWT_SECRET, FALSE))},
                       {Null, [value |-> "rid-1"]}, {"{}", "{name}"}, {"{}", "{page:2}"}) :
        /\ inb.userId = "u1"
        /\ inb.route.path \notin StrictPaths => inb.authorization # Null }

NextOptions == \E inb \in OptionInbounds : Inbound(1, inb)

SpecOptions == Init /\ [][NextOptions]_vars

\* requests with and without an X-Request-ID header, two at a time, on a
\* forwarded route and on the aggregate route, with a token and, on the
\* forwarded route, without one, while the backends answer in time with a
\* 2xx status
TraceRoutes == {Route("GET", "/v1/users/profile", "users"), Route("GET", DetailsPath, "both")}

RequestIds == {Null, [value |-> ""], [value |-> "rid-1"]}

TraceInbounds ==
    { inb \in Inbounds({"c1"}, TraceRoutes,
                       {Null, Authorization("Bearer", Token([id |-> "u1", roles |-> {"user"}],
                                                            JWT_SECRET, FALSE))},
                       RequestIds, {"{}"}, {"{}"}) :
        /\ inb.userId = "u1"
        /\ inb.method = "GET"
        /\ inb.route.path = DetailsPath => inb.authorization # Null }

NextTrace ==
    \/ \E r \in {1, 2}, inb \in TraceInbounds :
          hits["limiter"][inb.client] < MaxTraced /\ Inbound(r, inb)
    \/ \E r \in {1, 2}, b \in Backends : Served(r, b)
    \/ Tick

SpecTrace == Init /\ [][NextTrace]_vars

\* callers with a valid token, admins and others, ask for their own record
\* and for another user's, on the forwarded route and on the aggregate route,
\* while the backends answer in time with a 2xx status
RecordRoutes == {Route("GET", "/v1/users/:userId", "users"), Route("GET", DetailsPath, "both")}

RecordInbounds ==
    { inb \in Inbounds({"c1"}, RecordRoutes,
                       { Authorization("Bearer", Token(u, JWT_SECRET, FALSE)) : u \in Identities },
                       {Null}, {"{}"}, {"{}"}) :
        inb.method = "GET" }

NextRecord ==
    \/ \E r \in {1, 2}, inb \in RecordInbounds :
          hits["limiter"][inb.client] < MaxTraced /\ Inbound(r, inb)
    \/ \E r \in {1, 2}, b \in Backends : Served(r, b)
    \/ Tick

SpecRecord == Init /\ [][NextRecord]_vars

\* the aggregate route for a user with any number of orders: the gateway
\* asks for GET /v1/orders without page and limit, and the orders service
\* answers with the first page of defaultLimit orders and the number of all
Owned(uid, n) ==
    [i \in 1..n |-> [userId |-> uid, status |-> IF i = 1 THEN "completed" ELSE "created"]]

FirstPage(uid, n) ==
    [orders |-> SubSeq(Owned(uid, n), 1, IF n < defaultLimit THEN n ELSE defaultLimit),
     pagination |-> [total |-> n]]

ServedPage(r) ==
    /\ req[r].kind = "details"
    /\ call[r]["orders"].st = "inflight"
    /\ \E n \in 0..MaxOwned :
          LET resp == Http(200, Ok(FirstPage(req[r].user.id, n)))
          IN  SettleStep(r, "orders", SettleCircuit(circuit["orders"], resp),
                         SettleCall("orders", resp))

NextSummary ==
    \/ \E user \in Identities :
          Details(1, user, user.id) /\ UNCHANGED <<middleware, services>>
    \/ Served(1, "users")
    \/ ServedPage(1)
    \/ Tick

SpecSummary == Init /\ [][NextSummary]_vars

\* the gateway in front of backends that also answer 200 with a body the
\* handlers do not expect: the JSON value null, or an envelope whose data is
\* null
MalformedResponses == {Http(200, JsonNull), Http(200, Ok(JsonNull))}

Malformed(r, b) ==
    /\ call[r][b].st = "inflight"
    /\ \E resp \in MalformedResponses :
          SettleStep(r, b, SettleCircuit(circuit[b], resp), SettleCall(b, resp))

NextMalformed ==
    \/ \E r \in {1, 2}, rt \in PairRoutes :
          ForwardRequest(r, rt) /\ UNCHANGED <<middleware, services>>
    \/ \E user \in Identities :
          Details(1, user, "u1") /\ UNCHANGED <<middleware, services>>
    \/ \E r \in {1, 2}, b \in Backends : Served(r, b)
    \/ \E r \in {1, 2}, b \in Backends : Malformed(r, b)
    \/ Tick

SpecMalformed == Init /\ [][NextMalformed]_vars

----------------------------------------------------------------------------
(* The users service (src/service_users/index.js).  A handler runs in one  *)
(* turn up to its await (bcrypt.hash, bcrypt.compare) and in a later turn  *)
(* from there on; other requests are handled in between.                   *)

Emails == {"a@x", "b@x"}
Password == "secret1"

\* bcrypt.hash(password, 10) and bcrypt.compare(password, passwordHash)
Hash(password) == [bcrypt |-> password]
Compare(password, passwordHash) == passwordHash = Hash(password)

\* the Joi schemas: the keys a body may have and the ones it must have; a
\* body with another key, or without a required one, is an error
registerSchema ==
    [keys |-> {"email", "password", "name", "roles"},
     required |-> {"email", "password", "name"}, min |-> 0]
loginSchema ==
    [keys |-> {"email", "password"}, required |-> {"email", "password"}, min |-> 0]
updateProfileSchema ==
    [keys |-> {"name", "email"}, required |-> {}, min |-> 1]

Validate(schema, body) ==
    /\ DOMAIN body \subseteq schema.keys
    /\ schema.required \subseteq DOMAIN body
    /\ Cardinality(DOMAIN body) >= schema.min
    /\ "email" \in DOMAIN body => body.email \in Emails

\* roles: Joi ... .default(['user'])
RolesOf(value) == IF "roles" \in DOMAIN value THEN value.roles ELSE {"user"}

RegisterBodies ==
    { [email |-> "a@x", password |-> Password, name |-> "Ann"],
      [email |-> "b@x", password |-> Password, name |-> "Ann", roles |-> {"admin"}],
      [email |-> "a@x", name |-> "Ann"],
      [email |-> "not an email", password |-> Password, name |-> "Ann"],
      [email |-> "a@x", password |-> Password, name |-> "Ann",
       passwordHash |-> Hash("chosen")] }

LoginBodies ==
    { [email |-> "a@x", password |-> Password],
      [email |-> "b@x", password |-> "wrong"],
      [email |-> "a@x"] }

UpdateBodies ==
    { [email |-> e] : e \in Emails }
        \cup { [name |-> "Bob"], [name |-> "Bob", passwordHash |-> Hash("chosen")] }

\* findUserByEmail: the first stored user with the email, or undefined
findUserByEmail(email) ==
    IF \E i \in DOMAIN usersDb : usersDb[i].email = email
    THEN usersDb[CHOOSE i \in DOMAIN usersDb :
                    /\ usersDb[i].email = email
                    /\ \A j \in DOMAIN usersDb : usersDb[j].email = email => i <= j]
    ELSE Null

findUserById(id) == IF id \in DOMAIN usersDb THEN usersDb[id] ELSE Null

\* variant: the user is returned as stored
sanitizeUserKeepsAll(user) == user

sanitizeUser(user) == [f \in DOMAIN user \ {"passwordHash"} |-> user[f]]

generateToken(user) ==
    Token([id |-> user.id, email |-> user.email, roles |-> user.roles], JWT_SECRET, FALSE)

\* authMiddleware: the 401 it answers, or Null when it calls next()
authMiddleware(authorization) ==
    IF authorization = Null \/ authorization.scheme # "Bearer"
    THEN Response(401, Err("UNAUTHORIZED", "No token provided"))
    ELSE IF jwtVerify(authorization.token) = Null
    THEN Response(401, Err("INVALID_TOKEN", "Invalid or expired token"))
    ELSE Null

\* requireRole(roles): 403 unless the token has one of the roles
requireRole(roles, user) ==
    IF user.roles \cap roles = {} THEN Response(403, Err("FORBIDDEN", "Access denied"))
    ELSE Null

\* the Authorization headers of the requests to the service
ServiceHeaders ==
    { Null, Authorization("Bearer", Garbage),
      Authorization("Bearer", Token([id |-> 1, roles |-> {"admin"}], JWT_SECRET, FALSE)) }
        \cup { Authorization("Bearer", Token([id |-> i, roles |-> {"user"}], JWT_SECRET, FALSE)) :
                 i \in 1..MaxUsers }

\* res.status(s).json(e) of the handler of operation op
Reply(op, rsp) ==
    /\ reply' = [op |-> op, status |-> rsp.status, body |-> rsp.body]

HandlerFree(h) ==
    /\ handlers[h] = NoHandler
    /\ \A g \in Handlers : g < h => handlers[g] # NoHandler

Registering == {h \in Handlers : handlers[h].op = "register"}

\* POST /v1/users/register up to "await bcrypt.hash": validation, then the
\* look-up of the email; the handler is suspended with the validated value
Register(h, body) ==
    /\ HandlerFree(h)
    /\ UNCHANGED <<gateway, ordersService, usersDb>>
    /\ IF ~Validate(registerSchema, body)
       THEN Reply("register", Response(400, Err("VALIDATION_ERROR", "validation")))
            /\ UNCHANGED handlers
       ELSE IF findUserByEmail(body.email) # Null
       THEN Reply("register", Response(409, Err("USER_EXISTS", "User with this email already exists")))
            /\ UNCHANGED handlers
       ELSE /\ Len(usersDb) + Cardinality(Registering) < MaxUsers
            /\ handlers' = [handlers EXCEPT ![h] =
                   [op |-> "register", email |-> body.email, password |-> body.password,
                    name |-> body.name, roles |-> RolesOf(body)]]
            /\ reply' = Null

\* POST /v1/users/register from the await on: the user is stored under its
\* fresh id (here the position it is stored at) and answered without the hash;
\* createdAt and updatedAt are left out
RegisterHashed(h) ==
    LET value == handlers[h]
        newUser == [id |-> Len(usersDb) + 1, email |-> value.email,
                    passwordHash |-> Hash(value.password),
                    name |-> value.name, roles |-> value.roles]
    IN  /\ value.op = "register"
        /\ UNCHANGED <<gateway, ordersService>>
        /\ handlers' = [handlers EXCEPT ![h] = NoHandler]
        /\ usersDb' = Append(usersDb, newUser)
        /\ Reply("register", Response(201,
               [success |-> TRUE,
                data |-> [id |-> newUser.id, email |-> newUser.email,
                          name |-> newUser.name, roles |-> newUser.roles]]))

\* POST /v1/users/login up to "await bcrypt.compare"
Login(h, body) ==
    /\ HandlerFree(h)
    /\ UNCHANGED <<gateway, ordersService, usersDb>>
    /\ IF ~Validate(loginSchema, body)
       THEN Reply("login", Response(400, Err("VALIDATION_ERROR", "validation")))
            /\ UNCHANGED handlers
       ELSE IF findUserByEmail(body.email) = Null
       THEN Reply("login", Response(401, Err("INVALID_CREDENTIALS", "Invalid email or password")))
            /\ UNCHANGED handlers
       ELSE /\ handlers' = [handlers EXCEPT ![h] =
                   [op |-> "login", user |-> findUserByEmail(body.email),
                    password |-> body.password]]
            /\ reply' = Null

\* POST /v1/users/login from the await on
LoginCompared(h) ==
    LET user == handlers[h].user
    IN  /\ handlers[h].op = "login"
        /\ UNCHANGED <<gateway, ordersService, usersDb>>
        /\ handlers' = [handlers EXCEPT ![h] = NoHandler]
        /\ IF ~Compare(handlers[h].password, user.passwordHash)
           THEN Reply("login", Response(401, Err("INVALID_CREDENTIALS", "Invalid email or password")))
           ELSE Reply("login", Response(200,
                   [success |-> TRUE,
                    data |-> [token |-> generateToken(user), user |-> sanitizeUser(user)]]))

\* GET /v1/users/profile
GetProfile(a) ==
    /\ UNCHANGED <<gateway, ordersService, usersDb, handlers>>
    /\ IF authMiddleware(a) # Null THEN Reply("profile", authMiddleware(a))
       ELSE LET user == findUserById(jwtVerify(a.token).id)
            IN  IF user = Null
                THEN Reply("profile", Response(404, Err("USER_NOT_FOUND", "User not found")))
                ELSE Reply("profile", Response(200, [success |-> TRUE, data |-> sanitizeUser(user)]))

\* {...user, ...value}
Spread(user, value) ==
    [f \in DOMAIN user \cup DOMAIN value |-> IF f \in DOMAIN value THEN value[f] ELSE user[f]]

\* PUT /v1/users/profile; the handler has no await
UpdateProfile(a, body) ==
    /\ UNCHANGED <<gateway, ordersService, handlers>>
    /\ IF authMiddleware(a) # Null
       THEN Reply("update", authMiddleware(a)) /\ UNCHANGED usersDb
       ELSE IF ~Validate(updateProfileSchema, body)
       THEN Reply("update", Response(400, Err("VALIDATION_ERROR", "validation")))
            /\ UNCHANGED usersDb
       ELSE LET user == findUserById(jwtVerify(a.token).id)
            IN  IF user = Null
                THEN Reply("update", Response(404, Err("USER_NOT_FOUND", "User not found")))
                     /\ UNCHANGED usersDb
                ELSE IF /\ "email" \in DOMAIN body
                        /\ body.email # user.email
                        /\ findUserByEmail(body.email) # Null
                THEN Reply("update", Response(409, Err("EMAIL_EXISTS", "Email already in use")))
                     /\ UNCHANGED usersDb
                ELSE LET updatedUser == Spread(user, body)
                     IN  /\ usersDb' = [usersDb EXCEPT ![user.id] = updatedUser]
                         /\ Reply("update", Response(200,
                                [success |-> TRUE, data |-> sanitizeUser(updatedUser)]))

\* users.slice(startIndex, endIndex)
Slice(users, startIndex, endIndex) ==
    SubSeq(users, startIndex + 1, IF endIndex < Len(users) THEN endIndex ELSE Len(users))

\* paginatedUsers.map(sanitizeUser)
MapSanitize(users) == [i \in DOMAIN users |-> sanitizeUser(users[i])]

\* GET /v1/users?page=&limit=&role= (role Null: no filter)
ListUsers(a, page, limit, role) ==
    /\ UNCHANGED <<gateway, ordersService, usersDb, handlers>>
    /\ IF authMiddleware(a) # Null THEN Reply("list", authMiddleware(a))
       ELSE IF requireRole({"admin"}, jwtVerify(a.token)) # Null
       THEN Reply("list", requireRole({"admin"}, jwtVerify(a.token)))
       ELSE LET Has(user) == role = Null \/ role.value \in user.roles
                users == SelectSeq(usersDb, Has)
                paginatedUsers == Slice(users, (page - 1) * limit, page * limit)
            IN  Reply("list", Response(200,
                   [success |-> TRUE,
                    data |-> [users |-> MapSanitize(paginatedUsers),
                              pagination |-> [page |-> page, limit |-> limit,
                                              total |-> Len(users),
                                              totalPages |-> (Len(users) + limit - 1) \div limit]]]))

\* GET /v1/users/:userId (no authentication)
GetUser(id) ==
    /\ UNCHANGED <<gateway, ordersService, usersDb, handlers>>
    /\ IF findUserById(id) = Null
       THEN Reply("user", Response(404, Err("USER_NOT_FOUND", "User not found")))
       ELSE Reply("user", Response(200, [success |-> TRUE, data |-> sanitizeUser(findUserById(id))]))

\* req.query of the list requests: page, limit and role (Null: not given)
Queries ==
    { [page |-> 1, limit |-> 10, role |-> Null],
      [page |-> 2, limit |-> 1, role |-> Null],
      [page |-> 1, limit |-> 10, role |-> [value |-> "admin"]] }

NextService ==
    \/ \E h \in Handlers, body \in RegisterBodies : Register(h, body)
    \/ \E h \in Handlers : RegisterHashed(h)
    \/ \E h \in Handlers, body \in LoginBodies : Login(h, body)
    \/ \E h \in Handlers : LoginCompared(h)
    \/ \E a \in ServiceHeaders : GetProfile(a)
    \/ \E a \in ServiceHeaders, body \in UpdateBodies : UpdateProfile(a, body)
    \/ \E a \in ServiceHeaders, q \in Queries : ListUsers(a, q.page, q.limit, q.role)
    \/ \E id \in 1..(MaxUsers + 1) : GetUser(id)

SpecService == Init /\ [][NextService]_vars

----------------------------------------------------------------------------
(* The orders service (src/service_orders/index.js).  POST /v1/orders runs *)
(* in one turn up to "await checkUserExists" and in a later turn from      *)
(* there on; the other handlers have no await.  Timestamps are left out;   *)
(* an order's id is the position it is stored at, which is also the order  *)
(* of the createdAt values.                                                *)

Item(q, p) == [productId |-> "prod-1", productName |-> "Brick", quantity |-> q, price |-> p]

\* quantity: integer, min 1; price: min 0; every key required, no other key
ValidItem(item) ==
    /\ DOMAIN item = {"productId", "productName", "quantity", "price"}
    /\ item.quantity >= 1
    /\ item.price >= 0

\* createOrderSchema: items is required and has at least one valid item
createOrderSchema(body) ==
    /\ DOMAIN body = {"items"}
    /\ Len(body.items) >= 1
    /\ \A i \in DOMAIN body.items : ValidItem(body.items[i])

\* variant: any string is a valid status
updateOrderSchemaAnyStatus(body) == DOMAIN body = {"status"}

\* updateOrderSchema: status is required and is one of the four statuses
updateOrderSchema(body) ==
    /\ DOMAIN body = {"status"}
    /\ body.status \in OrderStatuses

CreateBodies ==
    { [items |-> <<Item(1, 5), Item(2, 100)>>],
      [items |-> << >>],
      [items |-> <<Item(2, 100), Item(0, 5)>>],
      [items |-> <<Item(-1, 100)>>],
      [note |-> "no items"] }

UpdateOrderBodies ==
    { [status |-> st] : st \in OrderStatuses } \cup { [status |-> "invalid_status"] }

RECURSIVE calculateTotal(_)

\* variant: only the first item is counted
calculateTotalOfFirst(items) ==
    IF items = << >> THEN 0 ELSE Head(items).price * Head(items).quantity

\* calculateTotal: items.reduce((total, item) => total + item.price * item.quantity, 0)
calculateTotal(items) ==
    IF items = << >> THEN 0
    ELSE Head(items).price * Head(items).quantity + calculateTotal(Tail(items))

findOrderById(orderId) == IF orderId \in DOMAIN ordersDb THEN ordersDb[orderId] ELSE Null

\* variant: every stored order is listed
getUserOrdersOfAll(userId) == ordersDb

\* getUserOrders: the orders of the user, in the order stored
getUserOrders(userId) ==
    LET Mine(order) == order.userId = userId IN SelectSeq(ordersDb, Mine)

\* the callers of the orders service: the owner of the token and its roles
OrderCallers ==
    { [id |-> 1, roles |-> {"user"}], [id |-> 2, roles |-> {"user"}],
      [id |-> 2, roles |-> {"manager"}], [id |-> 2, roles |-> {"admin"}] }

OrderHeaders ==
    { Null, Authorization("Bearer", Garbage) }
        \cup { Authorization("Bearer", Token(u, JWT_SECRET, FALSE)) : u \in OrderCallers }

CreatorFree(h) ==
    /\ creating[h] = NoHandler
    /\ \A g \in Handlers : g < h => creating[g] # NoHandler

Creating == {h \in Handlers : creating[h] # NoHandler}

\* POST /v1/orders up to "await checkUserExists(req.user.id, req.id)"
CreateOrder(h, a, body) ==
    /\ CreatorFree(h)
    /\ UNCHANGED <<gateway, usersDb, handlers, ordersDb>>
    /\ IF authMiddleware(a) # Null
       THEN Reply("create", authMiddleware(a)) /\ UNCHANGED creating
       ELSE IF ~createOrderSchema(body)
       THEN Reply("create", Response(400, Err("VALIDATION_ERROR", "validation")))
            /\ UNCHANGED creating
       ELSE /\ Len(ordersDb) + Cardinality(Creating) < MaxStored
            /\ creating' = [creating EXCEPT ![h] =
                   [op |-> "create", user |-> jwtVerify(a.token), items |-> body.items]]
            /\ reply' = Null

\* variant: a call that fails counts as a confirmation
checkUserExistsUnlessDown(userId, reached) == ~reached \/ findUserById(userId) # Null

\* checkUserExists: response.data.success of GET /v1/users/:userId of the
\* users service, false when the call fails
checkUserExists(userId, reached) == reached /\ findUserById(userId) # Null

\* POST /v1/orders from the await on; creation times are counted in
\* creations, and updatedAt, which no handler reads, is left out
OrderCreated(h, reached) ==
    LET value == creating[h]
        newOrder == [id |-> Len(ordersDb) + 1, userId |-> value.user.id,
                     items |-> value.items, status |-> "created",
                     totalAmount |-> calculateTotal(value.items),
                     createdAt |-> Len(ordersDb) + 1]
    IN  /\ value # NoHandler
        /\ UNCHANGED <<gateway, usersDb, handlers>>
        /\ creating' = [creating EXCEPT ![h] = NoHandler]
        /\ IF ~checkUserExists(value.user.id, reached)
           THEN /\ Reply("create", Response(404, Err("USER_NOT_FOUND", "User not found")))
                /\ UNCHANGED ordersDb
           ELSE /\ ordersDb' = Append(ordersDb, newOrder)
                /\ Reply("create", Response(201, [success |-> TRUE, data |-> newOrder]))

\* req.user.roles && req.user.roles.includes(role)
HasRole(user, role) == "roles" \in DOMAIN user /\ role \in user.roles

\* variant: a manager may read the order as well
MayReadOrManager(order, user) ==
    order.userId = user.id \/ HasRole(user, "admin") \/ HasRole(user, "manager")

\* isOwner || isAdmin of GET and DELETE /v1/orders/:orderId
MayRead(order, user) == order.userId = user.id \/ HasRole(user, "admin")

\* GET /v1/orders/:orderId
GetOrder(a, orderId) ==
    /\ UNCHANGED <<gateway, usersDb, handlers, ordersService>>
    /\ IF authMiddleware(a) # Null THEN Reply("order", authMiddleware(a))
       ELSE LET order == findOrderById(orderId)
                user == jwtVerify(a.token)
            IN  IF order = Null
                THEN Reply("order", Response(404, Err("ORDER_NOT_FOUND", "Order not found")))
                ELSE IF ~MayRead(order, user)
                THEN Reply("order", Response(403, Err("FORBIDDEN", "Access denied to this order")))
                ELSE Reply("order", Response(200, [success |-> TRUE, data |-> order]))

\* orders.sort by createdAt: oldest first for sortOrder 'asc', newest first
\* otherwise
Reverse(seq) == [i \in 1..Len(seq) |-> seq[Len(seq) + 1 - i]]
SortOrders(orders, sortOrder) == IF sortOrder = "asc" THEN orders ELSE Reverse(orders)

\* req.query of GET /v1/orders: page, limit, status (Null: not given), sortOrder
OrderQueries ==
    { [page |-> 1, limit |-> 10, status |-> Null, sortOrder |-> "desc"],
      [page |-> 2, limit |-> 1, status |-> Null, sortOrder |-> "asc"],
      [page |-> 1, limit |-> 10, status |-> [value |-> "created"], sortOrder |-> "desc"] }

\* GET /v1/orders
GetOrders(a, q) ==
    /\ UNCHANGED <<gateway, usersDb, handlers, ordersService>>
    /\ IF authMiddleware(a) # Null THEN Reply("orders", authMiddleware(a))
       ELSE LET Has(order) == q.status = Null \/ order.status = q.status.value
                orders == SortOrders(SelectSeq(getUserOrders(jwtVerify(a.token).id), Has),
                                     q.sortOrder)
                paginatedOrders == Slice(orders, (q.page - 1) * q.limit, q.page * q.limit)
            IN  Reply("orders", Response(200,
                   [success |-> TRUE,
                    data |-> [orders |-> paginatedOrders,
                              pagination |-> [page |-> q.page, limit |-> q.limit,
                                              total |-> Len(orders),
                                              totalPages |-> (Len(orders) + q.limit - 1) \div q.limit]]]))

\* isOwner && !isAdmin && !isManager && value.status !== 'cancelled'
OwnerMayOnlyCancel(order, user, status) ==
    /\ order.userId = user.id
    /\ ~HasRole(user, "admin")
    /\ ~HasRole(user, "manager")
    /\ status # "cancelled"

\* PUT /v1/orders/:orderId
UpdateOrder(a, orderId, body) ==
    /\ UNCHANGED <<gateway, usersDb, handlers, creating>>
    /\ IF authMiddleware(a) # Null
       THEN Reply("put", authMiddleware(a)) /\ UNCHANGED ordersDb
       ELSE IF ~updateOrderSchema(body)
       THEN Reply("put", Response(400, Err("VALIDATION_ERROR", "validation")))
            /\ UNCHANGED ordersDb
       ELSE LET order == findOrderById(orderId)
                user == jwtVerify(a.token)
            IN  IF order = Null
                THEN Reply("put", Response(404, Err("ORDER_NOT_FOUND", "Order not found")))
                     /\ UNCHANGED ordersDb
                ELSE IF ~(MayRead(order, user) \/ HasRole(user, "manager"))
                THEN Reply("put", Response(403, Err("FORBIDDEN", "Access denied to update this order")))
                     /\ UNCHANGED ordersDb
                ELSE IF OwnerMayOnlyCancel(order, user, body.status)
                THEN Reply("put", Response(403, Err("FORBIDDEN", "You can only cancel your orders")))
                     /\ UNCHANGED ordersDb
                ELSE LET updatedOrder == [order EXCEPT !.status = body.status]
                     IN  /\ ordersDb' = [ordersDb EXCEPT ![order.id] = updatedOrder]
                         /\ Reply("put", Response(200, [success |-> TRUE, data |-> updatedOrder]))

\* the statuses DELETE refuses to cancel an order in
CannotCancel(order) == {"completed", "cancelled"}

\* DELETE /v1/orders/:orderId
CancelOrder(a, orderId) ==
    /\ UNCHANGED <<gateway, usersDb, handlers, creating>>
    /\ IF authMiddleware(a) # Null
       THEN Reply("delete", authMiddleware(a)) /\ UNCHANGED ordersDb
       ELSE LET order == findOrderById(orderId)
                user == jwtVerify(a.token)
            IN  IF order = Null
                THEN Reply("delete", Response(404, Err("ORDER_NOT_FOUND", "Order not found")))
                     /\ UNCHANGED ordersDb
                ELSE IF ~MayRead(order, user)
                THEN Reply("delete", Response(403, Err("FORBIDDEN", "Access denied to cancel this order")))
                     /\ UNCHANGED ordersDb
                ELSE IF order.status \in CannotCancel(order)
                THEN Reply("delete", Response(400, Err("INVALID_OPERATION",
                            IF order.status = "completed" THEN "Cannot cancel completed order"
                            ELSE "Order already cancelled")))
                     /\ UNCHANGED ordersDb
                ELSE LET updatedOrder == [order EXCEPT !.status = "cancelled"]
                     IN  /\ ordersDb' = [ordersDb EXCEPT ![order.id] = updatedOrder]
                         /\ Reply("delete", Response(200,
                                [success |-> TRUE,
                                 data |-> [message |-> "Order cancelled successfully",
                                           order |-> updatedOrder]]))

\* GET /orders/health of index.js
OrdersHealth ==
    /\ UNCHANGED <<gateway, usersDb, handlers, ordersService>>
    /\ Reply("health", Response(200,
           [success |-> TRUE, data |-> [status |-> "OK", service |-> "Orders Service"]]))

\* GET /health of the router of routes/health.js
RouterHealth ==
    /\ UNCHANGED <<gateway, usersDb, handlers, ordersService>>
    /\ Reply("health", Response(200, [status |-> "healthy", service |-> "orders"]))

\* a user is registered with the users service: the state after one
\* Register and RegisterHashed
RegisteredUser ==
    [id |-> 1, email |-> "a@x", passwordHash |-> Hash(Password), name |-> "Ann",
     roles |-> {"user"}]

InitOrders ==
    /\ circuit = [b \in Backends |-> NewCircuit]
    /\ call = [r \in Slots |-> NoCalls]
    /\ req = [r \in Slots |-> Idle]
    /\ sent = Null
    /\ hits = NoHits
    /\ options = Null
    /\ inbound = Null
    /\ trace = [r \in Slots |-> Null]
    /\ usersDb = <<RegisteredUser>>
    /\ handlers = [h \in Handlers |-> NoHandler]
    /\ reply = Null
    /\ ordersDb = << >>
    /\ creating = [h \in Handlers |-> NoHandler]

OrderIds == 1..(MaxStored + 1)

NextOrders ==
    \/ \E h \in Handlers, a \in OrderHeaders, body \in CreateBodies : CreateOrder(h, a, body)
    \/ \E h \in Handlers, reached \in BOOLEAN : OrderCreated(h, reached)
    \/ \E a \in OrderHeaders, orderId \in OrderIds : GetOrder(a, orderId)
    \/ \E a \in OrderHeaders, q \in OrderQueries : GetOrders(a, q)
    \/ \E a \in OrderHeaders, orderId \in OrderIds, body \in UpdateOrderBodies :
           UpdateOrder(a, orderId, body)
    \/ \E a \in OrderHeaders, orderId \in OrderIds : CancelOrder(a, orderId)
    \/ OrdersHealth
    \/ RouterHealth

SpecOrders == InitOrders /\ [][NextOrders]_vars

\* the orders service with two registered users who both place orders; the
\* orders are completed by an admin or a manager and listed by every caller
RegisteredAdmin ==
    [id |-> 2, email |-> "b@x", passwordHash |-> Hash(Password), name |-> "Bob",
     roles |-> {"admin"}]

InitLists ==
    /\ circuit = [b \in Backends |-> NewCircuit]
    /\ call = [r \in Slots |-> NoCalls]
    /\ req = [r \in Slots |-> Idle]
    /\ sent = Null
    /\ hits = NoHits
    /\ options = Null
    /\ inbound = Null
    /\ trace = [r \in Slots |-> Null]
    /\ usersDb = <<RegisteredUser, RegisteredAdmin>>
    /\ handlers = [h \in Handlers |-> NoHandler]
    /\ reply = Null
    /\ ordersDb = << >>
    /\ creating = [h \in Handlers |-> NoHandler]

NextLists ==
    \/ \E a \in OrderHeaders, body \in CreateBodies : CreateOrder(1, a, body)
    \/ \E reached \in BOOLEAN : OrderCreated(1, reached)
    \/ \E a \in OrderHeaders, orderId \in OrderIds :
           UpdateOrder(a, orderId, [status |-> "completed"])
    \/ \E a \in OrderHeaders, q \in OrderQueries : GetOrders(a, q)

SpecLists == InitLists /\ [][NextLists]_vars

----------------------------------------------------------------------------
(* Properties *)

\* the step invokes breaker b (its 'fire' event is counted)
Invoked(b) == circuit'[b].window[1].fires = circuit[b].window[1].fires + 1

\* the step issues a backend call through breaker b
CallIssued(b) == \E r \in Slots : call[r][b].st # "inflight" /\ call'[r][b].st = "inflight"

\* the promise of request r's invocation of b after the step
PromiseAfter(r, b) ==
    IF sent' # Null /\ sent'.slot = r /\ call'[r][b].st = "none"
    THEN sent'.calls[b] ELSE call'[r][b]

\* the step settles request r's pending invocation of b
Settling(r, b) == call[r][b].st = "inflight" /\ PromiseAfter(r, b).st # "inflight"

\* the promise settled on an HTTP response whose envelope has success = false
BusinessFailure(p) == p.via = "response" /\ ~Success(p.resp.data)

InFlightOn(b) == {r \in Slots : call[r][b].st = "inflight"}

IsFallback(e) == IsEnvelope(e) /\ ~e.success /\ e.error.code = "SERVICE_UNAVAILABLE"

\* C1 (as claimed): when the backend answers a call with an envelope whose
\* success is false, the breaker's failure count does not grow, its state does
\* not change and the caller receives the backend's envelope.
C1_BusinessFailureIsBreakerSuccess ==
    [][\A r \in Slots, b \in Backends :
         (Settling(r, b) /\ BusinessFailure(PromiseAfter(r, b)))
            => /\ Stats(circuit'[b]).failures = Stats(circuit[b]).failures
               /\ circuit'[b].state = circuit[b].state
               /\ PromiseAfter(r, b).st = "fulfilled"
               /\ PromiseAfter(r, b).value = PromiseAfter(r, b).resp.data]_vars

\* C2: while a breaker is open, no step issues a backend call through it, and
\* every invocation of it is answered in the same turn with the fallback.
C2_OpenShortCircuits ==
    [][\A b \in Backends :
         circuit[b].state = "open"
            => /\ ~CallIssued(b)
               /\ Invoked(b) => /\ sent' # Null
                                /\ sent'.calls[b].st = "fulfilled"
                                /\ sent'.calls[b].via = "reject"
                                /\ sent'.calls[b].value = fallback[b]]_vars

C2_Witness ==
    /\ circuit["users"].state = "open"
    /\ circuit["users"].resetTimer > 0
    /\ sent # Null
    /\ sent.calls["users"].via = "reject"
    /\ sent.body = fallback["users"]

\* C3: an open breaker leaves that state only when its reset timer has run
\* out, and is half-open then; a half-open breaker has let either no call through yet or exactly one, the
\* trial; an invocation arriving while the trial is pending is answered with
\* the fallback and issues no call; when the trial settles the breaker is
\* closed if the call returned and open again if it failed or timed out.
TrialSucceeded(p) == p.via = "response" /\ ActionResolves(p.resp)

C4_FallbackIs503 ==
    (sent # Null /\ sent.kind = "forward" /\ sent.body = fallback[sent.route.circuit])
        => (sent.status = 503 /\ ErrorCode(sent.body) = "SERVICE_UNAVAILABLE")

\* C5: the status forwardRequest sends is 200 for every envelope with
\* success = true and 400 for every envelope with error.code VALIDATION_ERROR,
\* on every route and in every breaker state.
C5_StatusOfEnvelope ==
    (sent # Null /\ sent.kind = "forward")
        => /\ sent.body = sent.calls[sent.route.circuit].value
           /\ Success(sent.body) => sent.status = 200
           /\ (~Success(sent.body) /\ ErrorCode(sent.body) = "VALIDATION_ERROR")
                 => sent.status = 400

C5_Witness ==
    /\ sent # Null
    /\ sent.route.path = "/v1/orders/:orderId"
    /\ circuit["orders"].state = "halfOpen"
    /\ ErrorCode(sent.body) = "VALIDATION_ERROR"
    /\ sent.status = 400

\* C6 (as claimed): every error code a backend puts into an envelope has an
\* entry in forwardRequest's status table, so the default 500 is sent only
\* for codes no backend emits.
C6_TableCoversBackendCodes ==
    (sent # Null /\ sent.kind = "forward" /\ ~Success(sent.body)
        /\ ErrorCode(sent.body) \in BackendCodes("users") \cup BackendCodes("orders"))
        => ErrorCode(sent.body) \in DOMAIN statusTable

\* C7: every invocation of a breaker settles fulfilled with an envelope: the
\* backend's when the call returned, otherwise the fallback, whose success is
\* false and whose error.code is SERVICE_UNAVAILABLE.
SettledWell(p, b) ==
    p.st # "none" =>
        /\ p.st \in {"inflight", "fulfilled"}
        /\ p.st = "fulfilled" =>
              /\ IsEnvelope(p.value)
              /\ IF TrialSucceeded(p) THEN p.value = p.resp.data
                 ELSE p.value = fallback[b] /\ IsFallback(p.value)

C7_InvokeNeverRejects ==
    \A b \in Backends :
        /\ \A r \in Slots : SettledWell(call[r][b], b)
        /\ sent # Null => SettledWell(sent.calls[b], b)

C7_Witness ==
    /\ sent # Null
    /\ sent.calls["users"].via = "timeout"
    /\ sent.calls["users"].st = "fulfilled"
    /\ sent.calls["users"].value = fallback["users"]

\* C8: every invocation of a closed breaker whose rolling error rate is not
\* above the threshold issues a backend call and is not answered in that turn.
C8_ClosedPassesThrough ==
    [][\A b \in Backends :
         (circuit[b].state = "closed" /\ ~ErrorRateExceeded(Stats(circuit[b])) /\ Invoked(b))
            => (CallIssued(b) /\ sent' = Null)]_vars

\* a call is pending on a closed breaker that has counted failures before
C8_Witness ==
    /\ circuit["users"].state = "closed"
    /\ Stats(circuit["users"]).failures > 0
    /\ \E r \in Slots : call[r]["users"].st = "inflight" /\ call[r]["users"].age = 0

\* the aggregate route has answered after invoking both breakers
Aggregated == sent # Null /\ sent.kind = "details" /\ sent.calls["users"].st # "none"

LookupFailed(p) == p.st = "rejected" \/ ~Success(p.value)

\* C9: when the user lookup of the aggregate route fails, the response is
\* 404 USER_NOT_FOUND whatever the orders lookup gave.
C9_UserLookupFailureIs404 ==
    (Aggregated /\ LookupFailed(sent.calls["users"]))
        => /\ sent.status = 404
           /\ ~Success(sent.body)
           /\ ErrorCode(sent.body) = "USER_NOT_FOUND"

\* the user lookup failed and the orders lookup returned the caller's orders
C9_Witness ==
    /\ Aggregated
    /\ LookupFailed(sent.calls["users"])
    /\ Success(sent.calls["orders"].value)
    /\ Len(sent.calls["orders"].value.data.orders) > 0
    /\ sent.status = 404

\* C10: when the user lookup succeeds and the orders lookup fails, the
\* response is 200 with success = true, the user's data, no orders, total 0
\* and an empty byStatus.
C10_OrdersLookupFailureDegrades ==
    (Aggregated /\ ~LookupFailed(sent.calls["users"]) /\ LookupFailed(sent.calls["orders"]))
        => /\ sent.status = 200
           /\ Success(sent.body)
           /\ sent.body.data.user = sent.calls["users"].value.data
           /\ sent.body.data.orders = << >>
           /\ sent.body.data.ordersSummary.total = 0
           /\ DOMAIN sent.body.data.ordersSummary.byStatus = {}

C10_Witness ==
    /\ Aggregated
    /\ ~LookupFailed(sent.calls["users"])
    /\ sent.calls["orders"].via = "timeout"
    /\ sent.status = 200
    /\ sent.body.data.orders = << >>

\* C11: an aggregate request of a caller who is neither the target user nor an
\* admin is answered 403 FORBIDDEN in the turn it arrives; that turn invokes
\* no breaker and issues no call, and no such request is ever suspended.
Stranger(user, userId) == user.id # userId /\ "admin" \notin user.roles

C11_StrangerGets403 ==
    [][/\ \A r \in Slots :
            req'[r].kind = "details" => ~Stranger(req'[r].user, req'[r].userId)
       /\ (sent' # Null /\ sent'.kind = "details" /\ Stranger(sent'.user, sent'.userId))
            => /\ sent'.status = 403
               /\ ~Success(sent'.body) /\ ErrorCode(sent'.body) = "FORBIDDEN"
               /\ \A b \in Backends : sent'.calls[b].st = "none" /\ ~Invoked(b) /\ ~CallIssued(b)
               /\ circuit' = circuit /\ call' = call]_vars

\* a stranger has been refused while the users breaker is open
C11_Witness ==
    /\ sent # Null /\ sent.kind = "details"
    /\ Stranger(sent.user, sent.userId)
    /\ sent.status = 403
    /\ circuit["users"].state = "open"

\* C12: the aggregate route answers only when both of its invocations have
\* settled.  While one of them is pending the request stays suspended and
\* nothing is sent for it, also when the user lookup has already failed; the
\* settling of one invocation leaves the other one as it was.
Other(b) == CHOOSE o \in Backends : o # b

C12_AnswersAfterBothSettled ==
    [][/\ (sent' # Null /\ sent'.kind = "details" /\ sent'.status # 403)
            => \A b \in Backends : sent'.calls[b].st \in {"fulfilled", "rejected"}
       /\ \A r \in Slots, b \in Backends :
            (req[r].kind = "details" /\ Settling(r, b) /\ call[r][Other(b)].st = "inflight")
               => /\ sent' = Null
                  /\ req'[r] = req[r]
                  /\ call'[r][Other(b)] = call[r][Other(b)]
                  /\ call'[r][b].st \in {"fulfilled", "rejected"}]_vars

\* the user lookup has failed, the orders lookup is pending and the request
\* is still suspended
C12_Witness ==
    /\ req[1].kind = "details" /\ req[1].pc = "waiting"
    /\ call[1]["users"].st = "fulfilled" /\ ~Success(call[1]["users"].value)
    /\ call[1]["orders"].st = "inflight"
    /\ sent = Null

\* the step counts a request of client c in limiter l
Counted(l, c) == hits'[l][c] = hits[l][c] + 1

\* the step answers a request with the 429 of limiter l and runs no handler
Refused(l) ==
    /\ sent' # Null /\ sent'.kind = l
    /\ sent'.status = 429
    /\ ~Success(sent'.body) /\ ErrorCode(sent'.body) = "RATE_LIMIT_EXCEEDED"
    /\ \A b \in Backends : sent'.calls[b].st = "none" /\ ~Invoked(b) /\ ~CallIssued(b)
    /\ circuit' = circuit /\ call' = call /\ req' = req

\* C13: of the requests of one client that the strict limiter counts in one
\* window, the first 5 pass it and reach forwardRequest, which invokes the
\* users breaker; the 6th and every later one is answered 429
\* RATE_LIMIT_EXCEEDED and no breaker is invoked.
C13_StrictLimit ==
    [][\A c \in Clients :
         Counted("authLimiter", c)
            => IF hits["authLimiter"][c] < 5
               THEN /\ Invoked("users")
                    /\ sent' # Null => sent'.kind = "forward" /\ sent'.status # 429
               ELSE Refused("authLimiter")]_vars

\* the 7th request of the window has been refused
C13_Witness ==
    /\ hits["authLimiter"]["c1"] = 7
    /\ sent # Null /\ sent.kind = "authLimiter" /\ sent.status = 429
    /\ sent.route.path = "/v1/users/login"

\* C14: the end of a window sets the client's count to zero; a request
\* counted below max (100 general, 5 strict) is not refused by that limiter,
\* so the next max requests after the end of a window are admitted; and a
\* client whose count is above max gets to a count of zero again.
Admits(l) == sent' # Null => sent'.kind # l

C14_WindowRollsOver ==
    /\ [][\A c \in Clients :
            /\ \A l \in Limiters : hits'[l][c] < hits[l][c] => hits'[l][c] = 0
            /\ (Counted("limiter", c) /\ hits["limiter"][c] < 100) => Admits("limiter")
            /\ (Counted("authLimiter", c) /\ hits["authLimiter"][c] < 5)
                  => Admits("authLimiter")]_vars
    /\ (hits["limiter"]["c1"] > 100) ~> (hits["limiter"]["c1"] = 0)
    /\ (hits["authLimiter"]["c1"] > 5) ~> (hits["authLimiter"]["c1"] = 0)

\* a request has passed the strict limiter again: it is the eighth the
\* general limiter has counted in its window and the first of a new window
\* of the strict one
C14_Witness ==
    /\ hits["limiter"]["c1"] = 8
    /\ hits["authLimiter"]["c1"] = 1
    /\ call[1]["users"].st = "inflight" /\ call[1]["users"].age = 0
    /\ sent = Null

\* the header carries no bearer token / a bearer token that does not verify
NoBearer(h) == h = Null \/ h.scheme # "Bearer"
GoodToken(t) == t \in { Token(u, JWT_SECRET, FALSE) : u \in Identities }
BadBearer(h) == ~NoBearer(h) /\ ~GoodToken(h.token)

\* the step answers a request on a protected route that came without a bearer
\* token that verifies
UnauthenticatedAnswered ==
    /\ sent' # Null /\ sent'.kind \in {"limiter", "verifyToken"}
    /\ sent'.route.path \notin StrictPaths
    /\ NoBearer(sent'.authorization) \/ BadBearer(sent'.authorization)

Answered401 ==
    /\ sent'.status = 401 /\ ~Success(sent'.body)
    /\ ErrorCode(sent'.body) =
          (IF NoBearer(sent'.authorization) THEN "UNAUTHORIZED" ELSE "INVALID_TOKEN")
    /\ \A b \in Backends : sent'.calls[b].st = "none" /\ ~Invoked(b) /\ ~CallIssued(b)
    /\ circuit' = circuit /\ call' = call /\ req' = req

\* every invocation the step makes for a request on a protected route carries
\* a bearer token that verifies
OnlyAuthenticatedInvoke ==
    options' # Null =>
        \A b \in DOMAIN options' :
            options'[b].url \notin StrictPaths
               => /\ "Authorization" \in DOMAIN options'[b].options["headers"]
                  /\ ~NoBearer(options'[b].options["headers"]["Authorization"])
                  /\ GoodToken(options'[b].options["headers"]["Authorization"].token)

\* C15 (as claimed): every request on a protected route without an
\* Authorization header starting with Bearer is answered 401 UNAUTHORIZED and
\* every one whose bearer token does not verify 401 INVALID_TOKEN, and no
\* breaker is invoked.
C15_UnauthenticatedIs401 ==
    [][/\ UnauthenticatedAnswered => Answered401
       /\ OnlyAuthenticatedInvoke]_vars

\* C15 (amended): the same for every such request that the general rate
\* limiter admits.
C15_AdmittedUnauthenticatedIs401 ==
    [][/\ (UnauthenticatedAnswered
             /\ \E c \in Clients : Counted("limiter", c) /\ hits["limiter"][c] < 100)
            => Answered401
       /\ OnlyAuthenticatedInvoke]_vars

\* a request with an expired token has been answered 401 INVALID_TOKEN
C15_Witness ==
    /\ sent # Null /\ sent.kind = "verifyToken"
    /\ sent.route.path = DetailsPath
    /\ sent.authorization # Null /\ sent.authorization.scheme = "Bearer"
    /\ sent.authorization.token # Garbage /\ sent.authorization.token.expired
    /\ sent.status = 401 /\ ErrorCode(sent.body) = "INVALID_TOKEN"

\* C16: the turn in which a forwarded request arrives invokes the breaker of
\* its route once and no other breaker; while the invocation is pending the
\* request stays suspended and nothing is sent for it; the turn in which the
\* invocation settles invokes no breaker and issues no call (no retry), sends
\* the response and ends the request.  Every response of forwardRequest
\* carries the settled promise of that one invocation.
FiresOf(c) == c.window[1].fires

AnsweredTo(r) == sent' # Null /\ sent'.slot = r

C16_OneCallOneResponse ==
    [][\A r \in Slots :
         /\ (req[r].pc = "idle" /\ (req'[r].kind = "forward" \/ (AnsweredTo(r) /\ sent'.kind = "forward")))
               => LET rt == IF AnsweredTo(r) THEN sent'.route ELSE req'[r].route
                  IN  /\ FiresOf(circuit'[rt.circuit]) = FiresOf(circuit[rt.circuit]) + 1
                      /\ \A b \in Backends \ {rt.circuit} : circuit'[b] = circuit[b]
                      /\ AnsweredTo(r) <=> PromiseAfter(r, rt.circuit).st # "inflight"
         /\ (req[r].pc = "waiting" /\ req[r].kind = "forward")
               => LET b == req[r].route.circuit
                  IN  /\ call[r][b].st = "inflight"
                      /\ IF Settling(r, b)
                         THEN /\ AnsweredTo(r) /\ req'[r] = Idle
                              /\ FiresOf(circuit'[b]) = FiresOf(circuit[b])
                              /\ \A q \in Slots, o \in Backends : call'[q][o].st = "inflight"
                                    => call[q][o].st = "inflight"
                         ELSE ~AnsweredTo(r) /\ req'[r] = req[r]
         /\ (AnsweredTo(r) /\ sent'.kind = "forward")
               => /\ sent'.calls[sent'.route.circuit].st \in {"fulfilled", "rejected"}
                  /\ \A b \in Backends \ {sent'.route.circuit} : sent'.calls[b].st = "none"
                  /\ req'[r] = Idle /\ call'[r] = NoCalls]_vars

\* a forwarded request has been answered with the backend's reply while
\* another one is suspended
C16_Witness ==
    /\ sent # Null /\ sent.kind = "forward"
    /\ sent.calls["users"].via = "response"
    /\ \E r \in Slots : req[r].pc = "waiting" /\ call[r]["users"].st = "inflight"

\* the options forwardRequest has built for the request just received
Built == inbound # Null /\ options # Null /\ inbound.route.path # DetailsPath

BuiltOptions == options[inbound.route.circuit].options

\* the sub-request has the inbound method and query parameters, and the
\* inbound body exactly when the method is neither GET nor HEAD
CopiesRequest(o) ==
    /\ o["method"].value = inbound.method
    /\ o["params"].value = inbound.query
    /\ "data" \in DOMAIN o <=> inbound.method \notin {"GET", "HEAD"}
    /\ "data" \in DOMAIN o => o["data"].value = inbound.body
    /\ DOMAIN o \subseteq {"method", "headers", "params", "data"}

\* the trace identifier, and the Authorization header of the inbound request
\* when it has one
TraceAndCredential(h) ==
    /\ "X-Request-ID" \in DOMAIN h
    /\ inbound.requestId # Null => h["X-Request-ID"] = inbound.requestId
    /\ "Authorization" \in DOMAIN h <=> inbound.authorization # Null
    /\ "Authorization" \in DOMAIN h => h["Authorization"] = inbound.authorization

Aged(c) == [c EXCEPT !.window = Rotate(@), !.resetTimer = IF @ > 0 THEN @ - 1 ELSE @]

\* the step is an event of breaker b: an invocation, the settling of one of
\* its calls, or its reset timer
OwnEvent(b) ==
    \/ Invoked(b)
    \/ \E r \in Slots : Settling(r, b)
    \/ circuit[b].resetTimer = 0 /\ circuit'[b].state = "halfOpen"

\* C18: a breaker changes only by its own events and by the passing of time;
\* an event of one breaker leaves the state, the counters and the pending
\* calls of the other one unchanged; an invocation of a closed breaker issues
\* its call while the other breaker is open.
C18_BreakersIndependent ==
    [][\A b \in Backends :
         /\ circuit'[b] # circuit[b]
               => OwnEvent(b) \/ \A o \in Backends : circuit'[o] = Aged(circuit[o])
         /\ (OwnEvent(b) /\ ~OwnEvent(Other(b)))
               => /\ circuit'[Other(b)] = circuit[Other(b)]
                  /\ \A r \in Slots : call'[r][Other(b)].st = "inflight"
                                         <=> call[r][Other(b)].st = "inflight"
         /\ (Invoked(b) /\ circuit[b].state = "closed" /\ circuit[Other(b)].state = "open")
               => CallIssued(b) /\ sent' = Null]_vars

\* a call to the orders backend is pending on its closed breaker, which has
\* counted no failure, while the users breaker is open
C18_Witness ==
    /\ circuit["users"].state = "open"
    /\ circuit["orders"].state = "closed"
    /\ Stats(circuit["orders"]).failures = 0
    /\ \E r \in Slots : call[r]["orders"].st = "inflight" /\ call[r]["orders"].age = 0

----------------------------------------------------------------------------
(* Users service *)

\* C19: no two stored users ever have the same email, whatever the
\* interleaving of register and profile-update requests, two registrations
\* with one email in flight at the same time included.
C19_EmailsUnique ==
    \A i, j \in DOMAIN usersDb : usersDb[i].email = usersDb[j].email => i = j

\* the fields of an answered body in which a user of the store is shown
Shown(body) ==
    IF "data" \notin DOMAIN body THEN {body}
    ELSE {body, body.data}
            \cup (IF "user" \in DOMAIN body.data THEN {body.data.user} ELSE {})
            \cup (IF "users" \in DOMAIN body.data
                  THEN {body.data.users[i] : i \in DOMAIN body.data.users} ELSE {})

\* C20: no response of the users service (register, login, get profile,
\* update profile, list users, get user by id) has a passwordHash field,
\* neither at the top of its body nor in a user it shows.
C20_NoPasswordHash ==
    reply # Null => \A o \in Shown(reply.body) : "passwordHash" \notin DOMAIN o

\* C20 witness: the list of users is answered with two stored users in it
C20_Witness ==
    /\ reply # Null
    /\ reply.op = "list"
    /\ reply.status = 200
    /\ Len(reply.body.data.users) = 2
    /\ \A i \in DOMAIN usersDb : "passwordHash" \in DOMAIN usersDb[i]

----------------------------------------------------------------------------
(* Orders service *)

\* the sum over the items of quantity times price
RECURSIVE SumOfLines(_, _)
SumOfLines(items, n) ==
    IF n = 0 THEN 0 ELSE items[n].quantity * items[n].price + SumOfLines(items, n - 1)

\* the step answers a POST /v1/orders with 201
Created == reply' # Null /\ reply'.op = "create" /\ reply'.status = 201

\* the items of the body are missing, empty or have an item with a quantity
\* below 1
BadItems(body) ==
    \/ "items" \notin DOMAIN body
    \/ body.items = << >>
    \/ \E i \in DOMAIN body.items : body.items[i].quantity < 1

\* C21: a POST /v1/orders answered 201 stores exactly one new order, with
\* the caller's id as userId, status 'created' and totalAmount the sum of
\* quantity times price over its items, and answers with that order; orders
\* are stored by no other step; an authenticated POST with an empty items
\* list or an item with quantity below 1 is answered 400 VALIDATION_ERROR and
\* stores nothing.
C21_CreateOrder ==
    [][ /\ Created =>
            \E h \in Handlers :
               /\ creating[h] # NoHandler
               /\ creating'[h] = NoHandler
               /\ Len(ordersDb') = Len(ordersDb) + 1
               /\ SubSeq(ordersDb', 1, Len(ordersDb)) = ordersDb
               /\ LET order == ordersDb'[Len(ordersDb')]
                  IN  /\ order.userId = creating[h].user.id
                      /\ order.status = "created"
                      /\ order.items = creating[h].items
                      /\ order.totalAmount = SumOfLines(order.items, Len(order.items))
                      /\ \A o \in 1..Len(ordersDb) : ordersDb[o].id # order.id
                      /\ reply'.body = [success |-> TRUE, data |-> order]
        /\ Len(ordersDb') # Len(ordersDb) => Created
        /\ (reply' = Null \/ reply'.op = "create") /\ ordersDb' = ordersDb =>
              \A h \in Handlers, a \in OrderHeaders, body \in CreateBodies :
                 authMiddleware(a) = Null /\ BadItems(body) /\ CreateOrder(h, a, body) =>
                    /\ reply' # Null
                    /\ reply'.status = 400
                    /\ reply'.body.error.code = "VALIDATION_ERROR"
                    /\ creating' = creating
      ]_vars

\* C21 witness: a second order, of two items and 1 * 5 + 2 * 100 in total,
\* has just been stored and answered
C21_Witness ==
    /\ reply # Null
    /\ reply.op = "create"
    /\ reply.status = 201
    /\ Len(ordersDb) = 2
    /\ Len(ordersDb[2].items) = 2
    /\ ordersDb[2].totalAmount = 205

\* the Authorization header of a caller with a valid token
Bearer(user) == Authorization("Bearer", Token(user, JWT_SECRET, FALSE))

Owner == [id |-> 1, roles |-> {"user"}]
Manager == [id |-> 2, roles |-> {"manager"}]

\* C22: a PUT /v1/orders/:orderId by the order's owner, whose only role is
\* 'user', with any of the four statuses is answered 200 and the stored
\* order's status becomes the requested one.
C22_OwnerSetsAnyStatus ==
    [][ reply' # Null /\ reply'.op = "put" =>
           \A orderId \in DOMAIN ordersDb, st \in OrderStatuses :
              /\ ordersDb[orderId].userId = Owner.id
              /\ UpdateOrder(Bearer(Owner), orderId, [status |-> st])
              => /\ reply'.status = 200
                 /\ ordersDb'[orderId].status = st
      ]_vars

\* C23: a manager who is not an admin reads an order of another user:
\* GET /v1/orders/:orderId is answered 200 with the order.
C23_ManagerReadsOthers ==
    [][ reply' # Null /\ reply'.op = "order" =>
           \A orderId \in DOMAIN ordersDb :
              /\ ordersDb[orderId].userId # Manager.id
              /\ GetOrder(Bearer(Manager), orderId)
              => /\ reply'.status = 200
                 /\ reply'.body = [success |-> TRUE, data |-> ordersDb[orderId]]
      ]_vars

C25_EveryBodyIsEnvelope ==
    /\ reply # Null => IsEnvelope(reply.body)
    /\ sent # Null => IsEnvelope(sent.body)

----------------------------------------------------------------------------
(* Request ids *)

\* the request came with an X-Request-ID header
Sent(id) == id # Null
\* the request came with an X-Request-ID header that is not empty
SentNonEmpty(id) == id # Null /\ id.value # ""

\* a response is the response of a request whose ids are kept
ResponsesTraced == sent # Null => trace[sent.slot] # Null

----------------------------------------------------------------------------
(* Errors raised inside the gateway *)

\* the handler of the request just answered raised a TypeError while it
\* processed the results of its invocations
Raised ==
    /\ sent # Null
    /\ IF sent.kind = "details"
       THEN DetailsThrows(sent.calls["users"], sent.calls["orders"])
       ELSE \E b \in Backends : ForwardThrows(sent.calls[b])

\* C27: an error raised inside the gateway while it processes the value
\* returned by the breaker is answered 500 INTERNAL_ERROR
C27_RaisedIsInternalError ==
    Raised => sent.status = 500 /\ ErrorCode(sent.body) = "INTERNAL_ERROR"

----------------------------------------------------------------------------
(* The sample behind the breaker's decision to open *)

\* C28: one failed call in a rolling window that holds no other call does
\* not open a closed breaker.
C28_IsolatedFailureKeepsClosed ==
    [][\A b \in Backends :
         (/\ circuit[b].state = "closed"
          /\ Stats(circuit[b]) = [fires |-> 1, failures |-> 0]
          /\ Stats(circuit'[b]) = [fires |-> 1, failures |-> 1])
            => circuit'[b].state = "closed"]_vars

----------------------------------------------------------------------------
(* The order of the middleware *)

\* the client has used up the general quota of the current window
QuotaUsedUp(c) == hits["limiter"][c] >= limiterMax

Unauthenticated(inb) ==
    inb.route.path \notin StrictPaths /\ verifyToken(inb.authorization) # Null

\* C29: every request is counted by the general limiter, whatever its
\* credentials; a request arriving when the quota is used up is answered 429
\* by the limiter, not 401 by verifyToken, and no breaker is invoked for it; a
\* request without a valid token on a protected path that arrives within the
\* quota is answered 401 and has consumed one unit of the quota.
C29_LimitersFirst ==
    [][inbound' # Null =>
         LET inb == inbound'
             c == inb.client
         IN  /\ hits'["limiter"][c] = hits["limiter"][c] + 1
             /\ QuotaUsedUp(c) =>
                   /\ sent' # Null
                   /\ sent'.kind = "limiter"
                   /\ sent'.status = 429
                   /\ ErrorCode(sent'.body) = "RATE_LIMIT_EXCEEDED"
                   /\ options' = Null
                   /\ circuit' = circuit
                   /\ call' = call
             /\ (~QuotaUsedUp(c) /\ Unauthenticated(inb)) =>
                   /\ sent' # Null
                   /\ sent'.kind = "verifyToken"
                   /\ sent'.status = 401
                   /\ circuit' = circuit]_vars

\* a request without a token on a protected path arrives after the quota
\* was used up and is answered by the limiter
C29_Witness ==
    /\ inbound # Null
    /\ inbound.route.path = "/v1/users/profile"
    /\ inbound.authorization = Null
    /\ hits["limiter"][inbound.client] = limiterMax + 1
    /\ sent # Null
    /\ sent.kind = "limiter"
    /\ sent.status = 429
    /\ options = Null

----------------------------------------------------------------------------
(* The life of an order *)

\* C30: a completed order does not become cancelled by its owner's requests:
\* the owner's DELETE on it is answered 400 INVALID_OPERATION and changes
\* nothing, and the owner's PUT on it does not make it cancelled.
C30_CompletedNeverCancelled ==
    [][ reply' # Null /\ reply'.op \in {"put", "delete"} =>
           \A orderId \in DOMAIN ordersDb :
              (ordersDb[orderId].userId = Owner.id /\ ordersDb[orderId].status = "completed")
              => /\ CancelOrder(Bearer(Owner), orderId)
                      => /\ reply'.status = 400
                         /\ ErrorCode(reply'.body) = "INVALID_OPERATION"
                         /\ ordersDb' = ordersDb
                 /\ \A body \in UpdateOrderBodies :
                      UpdateOrder(Bearer(Owner), orderId, body)
                         => ordersDb'[orderId].status # "cancelled"
      ]_vars

----------------------------------------------------------------------------
(* The orders of the aggregate response *)

\* C31: every order in a 200 response of the aggregate route belongs to the
\* user the request is about.
C31_OrdersOfTargetUser ==
    (Aggregated /\ sent.status = 200)
        => \A i \in DOMAIN sent.body.data.orders :
               sent.body.data.orders[i].userId = sent.userId

----------------------------------------------------------------------------
(* Who obtains a user's record *)

\* the request just answered is one for a user's record: GET /v1/users/:userId
\* or the aggregate route
ForRecord ==
    /\ sent # Null
    /\ \/ sent.kind = "details"
       \/ sent.kind = "forward" /\ sent.route.path = "/v1/users/:userId"

\* C32: a request for the record of a user other than the caller, by a
\* caller who is no admin, is answered 403.
C32_OthersRecordIs403 ==
    (ForRecord /\ Stranger(sent.user, sent.userId)) => sent.status = 403

----------------------------------------------------------------------------
(* The summary of the aggregate response *)

RECURSIVE SumOfCounts(_, _)
SumOfCounts(f, S) ==
    IF S = {} THEN 0
    ELSE LET x == CHOOSE y \in S : TRUE IN f[x] + SumOfCounts(f, S \ {x})

\* C33: in a 200 response of the aggregate route the summary's total is the
\* length of the orders list and the sum of the counts by status.
C33_SummaryCounts ==
    (Aggregated /\ sent.status = 200)
        => LET d == sent.body.data
           IN  /\ d.ordersSummary.total = Len(d.orders)
               /\ Len(d.orders) = SumOfCounts(d.ordersSummary.byStatus,
                                              DOMAIN d.ordersSummary.byStatus)

----------------------------------------------------------------------------
(* The strict limiter's count *)

\* C34: a request of a client on the register or the login path that the
\* general limiter admits adds one to the client's one strict count; when
\* that count has reached 5 the request is answered 429 by the strict
\* limiter, on either path, and the breakers are left as they are; a request
\* on another path is admitted by the general limiter within its quota,
\* whatever the strict count is, and leaves the strict count alone.
C34_StrictCountShared ==
    [][inbound' # Null =>
         LET c == inbound'.client
             strict == inbound'.route.path \in StrictPaths
         IN  /\ (strict /\ ~QuotaUsedUp(c)) =>
                   /\ Counted("authLimiter", c)
                   /\ hits["authLimiter"][c] >= authLimiterMax => Refused("authLimiter")
                   /\ hits["authLimiter"][c] < authLimiterMax => Admits("authLimiter")
             /\ (~strict /\ ~QuotaUsedUp(c)) =>
                   /\ Admits("limiter")
                   /\ Admits("authLimiter")
                   /\ hits'["authLimiter"] = hits["authLimiter"]]_vars

\* the client's sixth request on the strict paths, one to register, is
\* refused by the strict limiter after the client has also been on another
\* path; both breakers are closed
C34_Witness ==
    /\ sent # Null /\ sent.kind = "authLimiter" /\ sent.status = 429
    /\ sent.route.path = "/v1/users/register"
    /\ hits["authLimiter"]["c1"] = authLimiterMax + 1
    /\ hits["limiter"]["c1"] = authLimiterMax + 2
    /\ \A b \in Backends : circuit[b].state = "closed"

----------------------------------------------------------------------------
(* Termination of a request *)

\* C35: a request that is suspended in forwardRequest or in the aggregate
\* route is answered in the end, whatever the backends do.
C35_EveryRequestAnswered ==
    \A r \in Slots : (req[r].pc = "waiting") ~> (sent # Null /\ sent.slot = r)

\* an aggregate request is answered after both of its calls have timed out
C35_Witness ==
    /\ sent # Null /\ sent.kind = "details"
    /\ \A b \in Backends : sent.calls[b].via = "timeout"
    /\ sent.calls["users"].value = fallback["users"]

----------------------------------------------------------------------------
(* Recovery of a breaker *)

\* the promise settled on a failure of the backend call
FailedCall(p) ==
    \/ p.via \in {"error", "timeout"}
    \/ p.via = "response" /\ ~ActionResolves(p.resp)

\* a call through breaker b has failed and its promise is still at hand
FailedOn(b) ==
    \/ \E r \in Slots : FailedCall(call[r][b])
    \/ sent # Null /\ FailedCall(sent.calls[b])

\* the breaker has been invoked in the current time unit
Arrived(b) == circuit[b].window[1].fires > 0

----------------------------------------------------------------------------
(* What a stored order keeps *)

\* the fields of an order that no request changes
Kept(order) ==
    [f \in {"id", "userId", "items", "totalAmount", "createdAt"} |-> order[f]]

\* C37: no step removes an order from the store or changes the id, userId,
\* items, totalAmount or createdAt of a stored order, and the status of every
\* stored order is one of the four statuses.
C37_OrderKeepsItsFields ==
    [][/\ Len(ordersDb') >= Len(ordersDb)
       /\ \A i \in DOMAIN ordersDb :
             /\ Kept(ordersDb'[i]) = Kept(ordersDb[i])
             /\ DOMAIN ordersDb'[i] = DOMAIN ordersDb[i]
       /\ \A i \in DOMAIN ordersDb' : ordersDb'[i].status \in OrderStatuses]_vars

\* the first order has just been cancelled by DELETE after the second one's
\* status was set by PUT
C37_Witness ==
    /\ reply # Null /\ reply.op = "delete" /\ reply.status = 200
    /\ Len(ordersDb) = 2
    /\ ordersDb[1].status = "cancelled"
    /\ ordersDb[2].status = "in_progress"

----------------------------------------------------------------------------
(* The list of a caller's orders *)

\* the stored orders of user id that the status filter of query q lets through
Matching(id, q) ==
    { i \in DOMAIN ordersDb :
        /\ ordersDb[i].userId = id
        /\ q.status # Null => ordersDb[i].status = q.status.value }

\* C38: GET /v1/orders by an authenticated caller is answered with stored
\* orders of the caller only, whatever the caller's roles and the query, and
\* pagination.total is the number of the caller's stored orders that match
\* the status filter.
C38_OnlyOwnOrders ==
    [][ reply' # Null /\ reply'.op = "orders" =>
           \A user \in OrderCallers, q \in OrderQueries :
              GetOrders(Bearer(user), q) =>
                 /\ reply'.status = 200
                 /\ \A k \in DOMAIN reply'.body.data.orders :
                       LET order == reply'.body.data.orders[k]
                       IN  /\ order.userId = user.id
                           /\ \E i \in Matching(user.id, q) : ordersDb[i] = order
                 /\ reply'.body.data.pagination.total = Cardinality(Matching(user.id, q))
      ]_vars

\* two users have an order each and a list of one order, out of one in
\* total, has just been returned
C38_Witness ==
    /\ reply # Null /\ reply.op = "orders" /\ reply.status = 200
    /\ Len(ordersDb) = 2
    /\ ordersDb[1].userId # ordersDb[2].userId
    /\ Len(reply.body.data.orders) = 1
    /\ reply.body.data.pagination.total = 1

----------------------------------------------------------------------------
(* Rejected requests to the orders service *)

RejectionCodes ==
    {"UNAUTHORIZED", "INVALID_TOKEN", "VALIDATION_ERROR", "FORBIDDEN", "ORDER_NOT_FOUND",
     "USER_NOT_FOUND", "INVALID_OPERATION"}

\* the step answers a request to the orders service with a rejection
Rejection ==
    /\ reply' # Null
    /\ reply'.status \in {400, 401, 403, 404}
    /\ ErrorCode(reply'.body) \in RejectionCodes

====
